---- MODULE Spec2Model ----
(***************************************************************************)
(* A model of the nextrj_route request router: the Route class with its    *)
(* per-method handler lists, route filters, error mappers and nested sub   *)
(* routes, and the dispatch of one request through handle().               *)
(*                                                                         *)
(* Strings are sequences of one-character strings, except that a named     *)
(* path parameter such as ":id" is kept as one element, so that            *)
(* startsWith, endsWith, concatenation and URLPattern matching are         *)
(* computed rather than assumed.                                           *)
(***************************************************************************)
EXTENDS Integers, Sequences, FiniteSets, TLC

\* ------------------------------------------------------------------ bounds

\* How many set-up calls (registrations, sub(), errorMapper()) a run makes.
MaxOps == 4

\* How many registrations a run of SpecReg makes, where each is one of the
\* eight registration functions in one of its two shapes.
MaxRegOps == 3

\* The router objects of a run: new Route(...) three times.
Routers == {0, 1, 2}

\* ----------------------------------------------------------------- strings

EMPTY == <<>>
SLASH == <<"/">>

\* String.prototype.startsWith('/') and endsWith('/')
startsWithSlash(s) == Len(s) > 0 /\ s[1] = "/"
endsWithSlash(s) == Len(s) > 0 /\ s[Len(s)] = "/"

\* Array.prototype.join('')
RECURSIVE joinAll(_)
joinAll(parts) ==
  IF parts = <<>> THEN <<>> ELSE Head(parts) \o joinAll(Tail(parts))

\* autoSlashPrefix: a falsy path ('' or undefined, both the empty string
\* here) is returned as it is, any other path gets a leading '/'.
autoSlashPrefix(path) ==
  IF path = EMPTY THEN path
  ELSE IF startsWithSlash(path) THEN path ELSE SLASH \o path

\* The reduce of joinUrlPath: the accumulator p takes the next part c when
\* it is empty or when its FIRST element does not end with '/'.
RECURSIVE joinReduce(_, _)
joinReduce(p, rest) ==
  IF rest = <<>> THEN p
  ELSE joinReduce(IF Len(p) = 0 \/ ~endsWithSlash(p[1]) THEN Append(p, Head(rest)) ELSE p,
                  Tail(rest))

\* joinUrlPath(...paths): the falsy parts are filtered out, the rest is
\* reduced and joined.  (It is only ever called with at least one argument.)
joinUrlPath(paths) ==
  joinAll(joinReduce(<<>>, SelectSeq(paths, LAMBDA p : p # EMPTY)))

\* -------------------------------------------------------------- URLPattern

\* The elements of a pathname pattern that are not literal characters.
ParamNames == {":id", ":p1", ":p2"}
WILDCARD == "*"

\* new URL(req.url).pathname: an http URL without a path has the path '/'.
\* A request URL is [path |-> the characters after the origin, search |-> the
\* query string without '?'].
pathnameOf(url) == IF url.path = EMPTY THEN SLASH ELSE url.path

\* Whether the pathname pattern pat (literal characters, ':name' matching
\* one or more characters other than '/', '*' matching anything) matches the
\* whole of the pathname u.
RECURSIVE matchPath(_, _)
matchPath(pat, u) ==
  IF pat = <<>> THEN u = <<>>
  ELSE IF Head(pat) \in ParamNames
    THEN \E k \in 1..Len(u) :
           /\ \A i \in 1..k : u[i] # "/"
           /\ matchPath(Tail(pat), SubSeq(u, k + 1, Len(u)))
  ELSE IF Head(pat) = WILDCARD
    THEN \E k \in 0..Len(u) : matchPath(Tail(pat), SubSeq(u, k + 1, Len(u)))
  ELSE u # <<>> /\ Head(u) = Head(pat) /\ matchPath(Tail(pat), Tail(u))

\* A test that tolerates a trailing slash on either side.
patternTestTrailingSlash(pattern, url) ==
  \/ matchPath(pattern, pathnameOf(url))
  \/ matchPath(pattern \o SLASH, pathnameOf(url))
  \/ matchPath(pattern, pathnameOf(url) \o SLASH)

\* new URLPattern({ pathname, search: '*', hash: '*' }).test(url): the
\* search and hash components match every URL.
patternTest(pattern, url) == matchPath(pattern, pathnameOf(url))

\* Group keys that count the '*' groups from one.
groupKeyFromOne(elem, n) ==
  IF elem = ":id" THEN "id" ELSE IF elem = ":p1" THEN "p1" ELSE IF elem = ":p2" THEN "p2"
  ELSE IF n = 0 THEN "1" ELSE "2"

\* The key of a group: the name of a ':name', the position of a '*'.
groupKey(elem, n) ==
  IF elem = ":id" THEN "id" ELSE IF elem = ":p1" THEN "p1" ELSE IF elem = ":p2" THEN "p2"
  ELSE IF n = 0 THEN "0" ELSE "1"

\* Object.assign(target, source) on mappings from keys to values.
assign(target, source) ==
  [k \in DOMAIN target \cup DOMAIN source |->
     IF k \in DOMAIN source THEN source[k] ELSE target[k]]

\* The empty mapping {}.
NoData == [k \in {} |-> <<>>]

\* The groups of a match: a ':name' takes the shortest run of characters that
\* lets the rest match, a '*' the longest; the n-th '*' has the key n.
RECURSIVE matchGroups(_, _, _)
matchGroups(pat, u, n) ==
  IF pat = <<>> THEN NoData
  ELSE IF Head(pat) \in ParamNames
    THEN LET ks == {k \in 1..Len(u) :
                      /\ \A i \in 1..k : u[i] # "/"
                      /\ matchPath(Tail(pat), SubSeq(u, k + 1, Len(u)))}
             k == CHOOSE x \in ks : \A y \in ks : x <= y
         IN assign([g \in {groupKey(Head(pat), n)} |-> SubSeq(u, 1, k)],
                   matchGroups(Tail(pat), SubSeq(u, k + 1, Len(u)), n))
  ELSE IF Head(pat) = WILDCARD
    THEN LET ks == {k \in 0..Len(u) : matchPath(Tail(pat), SubSeq(u, k + 1, Len(u)))}
             k == CHOOSE x \in ks : \A y \in ks : x >= y
         IN assign([g \in {groupKey(Head(pat), n)} |-> SubSeq(u, 1, k)],
                   matchGroups(Tail(pat), SubSeq(u, k + 1, Len(u)), n + 1))
  ELSE matchGroups(Tail(pat), Tail(u), n)

\* pattern.exec(url)?.pathname?.groups: undefined when exec returns null,
\* else the groups, found by one walk over the pattern and the pathname.
RECURSIVE execGroups(_, _, _)
execGroups(pat, u, n) ==
  IF pat = <<>> THEN (IF u = <<>> THEN <<NoData>> ELSE <<>>)
  ELSE IF Head(pat) \in ParamNames \/ Head(pat) = WILDCARD
    THEN LET ks == {k \in (IF Head(pat) = WILDCARD THEN 0 ELSE 1)..Len(u) :
                      /\ Head(pat) = WILDCARD \/ \A i \in 1..k : u[i] # "/"
                      /\ execGroups(Tail(pat), SubSeq(u, k + 1, Len(u)),
                                    IF Head(pat) = WILDCARD THEN n + 1 ELSE n) # <<>>}
         IN IF ks = {} THEN <<>>
            ELSE LET k == IF Head(pat) = WILDCARD
                          THEN CHOOSE x \in ks : \A y \in ks : x >= y
                          ELSE CHOOSE x \in ks : \A y \in ks : x <= y
                     rest == execGroups(Tail(pat), SubSeq(u, k + 1, Len(u)),
                                        IF Head(pat) = WILDCARD THEN n + 1 ELSE n)[1]
                 IN <<assign([g \in {groupKey(Head(pat), n)} |-> SubSeq(u, 1, k)], rest)>>
  ELSE IF u # <<>> /\ Head(u) = Head(pat) THEN execGroups(Tail(pat), Tail(u), n)
  ELSE <<>>

\* An exec whose result has no groups.
patternExecNoGroups(pattern, url) == NoData

\* pattern.exec(url)?.pathname?.groups || {}
patternExec(pattern, url) ==
  IF patternTest(pattern, url) THEN matchGroups(pattern, pathnameOf(url), 0) ELSE NoData

\* ------------------------------------------------------------------- state

\* The eight members of the enum Method.
Methods == {"GET", "HEAD", "POST", "PUT", "DELETE", "OPTIONS", "TRACE", "PATCH"}

\* An optional value is a sequence: <<>> is undefined, <<x>> is x.
Undefined == <<>>
Some(x) == <<x>>

\* The handler functions a run registers: every registration passes a new
\* function, named after the router it is registered on (a, b, c for router
\* 0, 1, 2) and numbered in the order of the registrations on that router.
HandlerNames ==
  <<<<"a1", "a2", "a3", "a4", "a5", "a6">>,
    <<"b1", "b2", "b3", "b4", "b5", "b6">>,
    <<"c1", "c2", "c3", "c4", "c5", "c6">>>>
\* The filter function a registration may pass along with handler k of router r.
EntryFilterNames ==
  <<<<"fa1", "fa2", "fa3", "fa4", "fa5", "fa6">>,
    <<"fb1", "fb2", "fb3", "fb4", "fb5", "fb6">>,
    <<"fc1", "fc2", "fc3", "fc4", "fc5", "fc6">>>>

VARIABLES
  path,         \* Route.#path of each router
  filters,      \* Route.filters of each router
  errMapper,    \* Route.#errorMapper of each router: Undefined or Some(name)
  parent,       \* Route.#parent of each router: Undefined or Some(router)
  handlers,     \* Route.#handlers of each router: a list of HandlerMatcher per Method
  req,          \* the handle() calls: position, locals, outcome and what each invoked
  nReg,         \* history: the number of registrations made on each router
  nOps,         \* history: the number of set-up calls made so far
  fluent,       \* the caller's fluent expression route.a(...).b(...): the router it
                \* started on, its value so far, and whether a call on it threw
  made,         \* the options of the handlers made by create(): made.cors of
                \* handler/allow_cors.ts, made.download of handler/file_download.ts
  children,     \* Route.#children of each router in the revision that keeps a
                \* tree of routes: the list of { route, path } its sub() calls made
  parentPath    \* the path of Route.#parent = { route, path } in that revision

vars == <<path, filters, errMapper, parent, handlers, req, nReg, nOps, fluent, made, children, parentPath>>

\* The function the next registration on router r passes as handler, the
\* filter it may pass with it, and the router a handler was registered on.
newHandler(r) == HandlerNames[r + 1][nReg[r] + 1]
newFilter(r) == EntryFilterNames[r + 1][nReg[r] + 1]
owner(h) == CHOOSE r \in Routers : \E k \in 1..Len(HandlerNames[r + 1]) : HandlerNames[r + 1][k] = h

\* A Response: the status, the body text and the header names.
Response(body, status) == [status |-> status, body |-> body, headers |-> {}]

\* The filter and the error mapper the callers give to router r.
routeFilter(r) == <<"f0", "f1", "f2">>[r + 1]
routeMapper(r) == <<"m0", "m1", "m2">>[r + 1]

\* A fluent expression that is just the router 0.
NoChain == [this |-> 0, value |-> Some(0), thrown |-> FALSE]

\* The default handlers of the two handler modules, each made by create()
\* without options: no option is set.
DefaultHandlers ==
  [cors |-> [allowOrigin |-> Undefined, allowMethods |-> Undefined, allowHeaders |-> Undefined,
             allowCredentials |-> Undefined, maxAge |-> Undefined],
   download |-> [cors |-> Undefined, maxAge |-> Undefined, customHeadersParser |-> Undefined]]

\* A handle() call that has not been made.  file is the file the call opened:
\* "none", "open", "closed", or "streaming" when the Response reads it.
Idle ==
  [pc |-> "idle", route |-> 0, method |-> "GET", url |-> [path |-> EMPTY, search |-> EMPTY],
   matcher |-> Undefined, ctx |-> NoData, todo |-> <<>>, cur |-> Undefined,
   invoked |-> <<>>, error |-> Undefined, res |-> Undefined, rejected |-> Undefined,
   file |-> "none"]

\* ------------------------------------------------------------------ inputs

\* The handle() calls a run can have in flight.
Requests == {1}

InitWith(paths, filterLists) ==
  /\ path \in paths
  /\ filters \in filterLists
  /\ errMapper = [r \in Routers |-> Undefined]
  /\ parent = [r \in Routers |-> Undefined]
  /\ handlers = [r \in Routers |-> [m \in Methods |-> <<>>]]
  /\ req = [q \in Requests |-> Idle]
  /\ nReg = [r \in Routers |-> 0]
  /\ nOps = 0
  /\ fluent = NoChain
  /\ made = DefaultHandlers
  /\ children = [r \in Routers |-> <<>>]
  /\ parentPath = [r \in Routers |-> EMPTY]

\* Router 0 is new Route('', f0), router 1 is new Route('/m'), router 2 is
\* new Route().
Init ==
  InitWith({[r \in Routers |-> IF r = 1 THEN <<"/", "m">> ELSE EMPTY]},
           {[r \in Routers |-> IF r = 0 THEN <<"f0">> ELSE <<>>]})

\* ------------------------------------------------- registration, composition

\* A registration that also reaches the router the route was absorbed into.
addLive(r, method, p, handler, fs) ==
  LET pth == autoSlashPrefix(p)
      pathPattern == joinUrlPath(<<path[r], pth>>)
      entry == [pattern |-> pathPattern, handler |-> handler, filters |-> fs,
                path |-> pth, middlePath |-> EMPTY, middleFilters |-> <<>>]
  IN handlers' = [x \in Routers |->
                    IF x = r \/ parent[r] = Some(x)
                    THEN [handlers[x] EXCEPT ![method] = Append(@, entry)]
                    ELSE handlers[x]]

\* The entry Route.add pushes: the pattern of routePath + handlerPath, the
\* handler, the filters and the path.
newEntry(r, p, handler, fs) ==
  LET pth == autoSlashPrefix(p)
      pathPattern == joinUrlPath(<<path[r], pth>>)
  IN [pattern |-> pathPattern, handler |-> handler, filters |-> fs,
      path |-> pth, middlePath |-> EMPTY, middleFilters |-> <<>>]

\* Route.add: the entry is appended to the list of its method.
add(r, method, p, handler, fs) ==
  handlers' = [handlers EXCEPT ![r][method] = Append(@, newEntry(r, p, handler, fs))]

\* Route.get(handler, ...filters) and Route.get(path, handler, ...filters):
\* arg1 is Some(path) in the path-first shape, Undefined in the other.
get(r, arg1, handler, fs) ==
  IF arg1 # Undefined THEN add(r, "GET", arg1[1], handler, fs)
  ELSE add(r, "GET", EMPTY, handler, fs)

\* Route.post, in both shapes.
post(r, arg1, handler, fs) ==
  IF arg1 # Undefined THEN add(r, "POST", arg1[1], handler, fs)
  ELSE add(r, "POST", EMPTY, handler, fs)

\* Route.head, in both shapes: the path-first shape adds to Method.GET.
head(r, arg1, handler, fs) ==
  IF arg1 # Undefined THEN add(r, "GET", arg1[1], handler, fs)
  ELSE add(r, "HEAD", EMPTY, handler, fs)

\* Route.options, in both shapes.
options(r, arg1, handler, fs) ==
  IF arg1 # Undefined THEN add(r, "OPTIONS", arg1[1], handler, fs)
  ELSE add(r, "OPTIONS", EMPTY, handler, fs)

\* Route.put, in both shapes.
put(r, arg1, handler, fs) ==
  IF arg1 # Undefined THEN add(r, "PUT", arg1[1], handler, fs)
  ELSE add(r, "PUT", EMPTY, handler, fs)

\* Route.patch, in both shapes.
patch(r, arg1, handler, fs) ==
  IF arg1 # Undefined THEN add(r, "PATCH", arg1[1], handler, fs)
  ELSE add(r, "PATCH", EMPTY, handler, fs)

\* Route.delete, in both shapes.
delete(r, arg1, handler, fs) ==
  IF arg1 # Undefined THEN add(r, "DELETE", arg1[1], handler, fs)
  ELSE add(r, "DELETE", EMPTY, handler, fs)

\* Route.trace, in both shapes.
trace(r, arg1, handler, fs) ==
  IF arg1 # Undefined THEN add(r, "TRACE", arg1[1], handler, fs)
  ELSE add(r, "TRACE", EMPTY, handler, fs)

\* The eight registration functions, and the HTTP method each is named after.
RegistrationFns == {"get", "head", "post", "put", "delete", "options", "trace", "patch"}
methodOf(fn) ==
  CASE fn = "get" -> "GET" [] fn = "head" -> "HEAD" [] fn = "post" -> "POST"
    [] fn = "put" -> "PUT" [] fn = "delete" -> "DELETE" [] fn = "options" -> "OPTIONS"
    [] fn = "trace" -> "TRACE" [] fn = "patch" -> "PATCH"

\* A call of the registration function named fn with a new handler function.
Register(r, fn, arg1, fs) ==
  /\ nOps < MaxOps
  /\ CASE fn = "get" -> get(r, arg1, newHandler(r), fs)
       [] fn = "head" -> head(r, arg1, newHandler(r), fs)
       [] fn = "post" -> post(r, arg1, newHandler(r), fs)
       [] fn = "put" -> put(r, arg1, newHandler(r), fs)
       [] fn = "delete" -> delete(r, arg1, newHandler(r), fs)
       [] fn = "options" -> options(r, arg1, newHandler(r), fs)
       [] fn = "trace" -> trace(r, arg1, newHandler(r), fs)
       [] fn = "patch" -> patch(r, arg1, newHandler(r), fs)
  /\ nReg' = [nReg EXCEPT ![r] = @ + 1]
  /\ nOps' = nOps + 1
  /\ UNCHANGED <<path, filters, errMapper, parent, req, fluent, made, children, parentPath>>

\* A call of get() with a new handler function.
Get(r, arg1, fs) ==
  /\ nOps < MaxOps
  /\ get(r, arg1, newHandler(r), fs)
  /\ nReg' = [nReg EXCEPT ![r] = @ + 1]
  /\ nOps' = nOps + 1
  /\ UNCHANGED <<path, filters, errMapper, parent, req, fluent, made, children, parentPath>>

\* A call of post() with a new handler function.
Post(r, arg1, fs) ==
  /\ nOps < MaxOps
  /\ post(r, arg1, newHandler(r), fs)
  /\ nReg' = [nReg EXCEPT ![r] = @ + 1]
  /\ nOps' = nOps + 1
  /\ UNCHANGED <<path, filters, errMapper, parent, req, fluent, made, children, parentPath>>

\* A filter() that adds its arguments to the filters already there.
filterAdds(r, fs) ==
  /\ nOps < MaxOps
  /\ filters' = [filters EXCEPT ![r] = @ \o fs]
  /\ nOps' = nOps + 1
  /\ UNCHANGED <<path, errMapper, parent, handlers, req, nReg, fluent, made, children, parentPath>>

\* Route.filter(...filters)
Filter(r, fs) ==
  /\ nOps < MaxOps
  /\ filters' = [filters EXCEPT ![r] = fs]
  /\ nOps' = nOps + 1
  /\ UNCHANGED <<path, errMapper, parent, handlers, req, nReg, fluent, made, children, parentPath>>

\* Route.errorMapper(mapper)
ErrorMapper(r, mapper) ==
  /\ nOps < MaxOps
  /\ errMapper' = [errMapper EXCEPT ![r] = Some(mapper)]
  /\ nOps' = nOps + 1
  /\ UNCHANGED <<path, filters, parent, handlers, req, nReg, fluent, made, children, parentPath>>

\* An entry that forgets the path given to sub().
flattenNoSubPath(this, subPath, route, fs, hm) ==
  LET middlePath == joinUrlPath(<<path[route], hm.middlePath>>)
      patternPath == joinUrlPath(<<path[this], middlePath, hm.path>>)
      middleFilters == fs \o filters[route] \o hm.middleFilters
  IN [pattern |-> patternPath, handler |-> hm.handler, filters |-> hm.filters,
      path |-> hm.path, middlePath |-> middlePath, middleFilters |-> middleFilters]

\* An entry whose inherited filters have the filters given to sub() after
\* those of the sub route.
flattenSubFiltersLast(this, subPath, route, fs, hm) ==
  LET middlePath == joinUrlPath(<<subPath, path[route], hm.middlePath>>)
      patternPath == joinUrlPath(<<path[this], middlePath, hm.path>>)
      middleFilters == filters[route] \o fs \o hm.middleFilters
  IN [pattern |-> patternPath, handler |-> hm.handler, filters |-> hm.filters,
      path |-> hm.path, middlePath |-> middlePath, middleFilters |-> middleFilters]

\* An entry whose inherited filters are chained innermost first.
flattenInnerFirst(this, subPath, route, fs, hm) ==
  LET middlePath == joinUrlPath(<<subPath, path[route], hm.middlePath>>)
      patternPath == joinUrlPath(<<path[this], middlePath, hm.path>>)
      middleFilters == hm.middleFilters \o filters[route] \o fs
  IN [pattern |-> patternPath, handler |-> hm.handler, filters |-> hm.filters,
      path |-> hm.path, middlePath |-> middlePath, middleFilters |-> middleFilters]

\* The entry that sub() makes of the entry hm of the sub route: the map()
\* callback of Route.sub.
flatten(this, subPath, route, fs, hm) ==
  LET middlePath == joinUrlPath(<<subPath, path[route], hm.middlePath>>)
      patternPath == joinUrlPath(<<path[this], middlePath, hm.path>>)
      middleFilters == fs \o filters[route] \o hm.middleFilters
  IN [pattern |-> patternPath, handler |-> hm.handler, filters |-> hm.filters,
      path |-> hm.path, middlePath |-> middlePath, middleFilters |-> middleFilters]

\* A list that puts the entries of the sub route in front.
subListFront(this, subPath, route, fs, method) ==
  [i \in 1..Len(handlers[route][method]) |->
     flatten(this, subPath, route, fs, handlers[route][method][i])]
    \o handlers[this][method]

\* The list of a method after sub(): the entries already there, then those
\* of the sub route.
subList(this, subPath, route, fs, method) ==
  handlers[this][method]
    \o [i \in 1..Len(handlers[route][method]) |->
          flatten(this, subPath, route, fs, handlers[route][method][i])]

\* Route.sub(route, ...filters) and Route.sub(path, route, ...filters): arg1
\* is Some(path) in the path-first shape, Undefined in the other.
sub(this, arg1, route, fs) ==
  LET subPath == IF arg1 # Undefined THEN autoSlashPrefix(arg1[1]) ELSE EMPTY
  IN /\ parent' = [parent EXCEPT ![route] = Some(this)]
     /\ handlers' = [handlers EXCEPT ![this] =
                       [m \in Methods |-> subList(this, subPath, route, fs, m)]]

\* A call of sub().  The callers compose routers into trees: a router is
\* never made a sub route of itself or of one of its own sub routes, which
\* the numbering this < route stands for.
Sub(this, arg1, route, fs) ==
  /\ nOps < MaxOps
  /\ this < route
  /\ sub(this, arg1, route, fs)
  /\ nOps' = nOps + 1
  /\ UNCHANGED <<path, filters, errMapper, req, nReg, fluent, made, children, parentPath>>

\* ------------------------------------------- a nested and a flat router

\* The README's two programs, built side by side: `top` absorbs sub routes
\* and `flat` gets every entry registered directly.  The list of a method of
\* flat after the entries of `route` were registered on it one by one, in
\* their order, with flat.get(subPath + route's root path + entry path, ...).
flatList(flat, subPath, route, method) ==
  handlers[flat][method]
    \o [i \in 1..Len(handlers[route][method]) |->
          LET hm == handlers[route][method][i]
          IN newEntry(flat, subPath \o path[route] \o hm.path, hm.handler, hm.filters)]

\* top.sub(route) or top.sub(path, route) in the nested program, and the
\* registrations of route's entries on flat in the flat program.
NestedAndFlatSub(top, arg1, route, flat) ==
  LET subPath == IF arg1 # Undefined THEN autoSlashPrefix(arg1[1]) ELSE EMPTY
  IN /\ nOps < MaxOps
     /\ parent' = [parent EXCEPT ![route] = Some(top)]
     /\ handlers' = [handlers EXCEPT
                       ![top] = [m \in Methods |-> subList(top, subPath, route, <<>>, m)],
                       ![flat] = [m \in Methods |-> flatList(flat, subPath, route, m)]]
     /\ nOps' = nOps + 1
     /\ UNCHANGED <<path, filters, errMapper, req, nReg, fluent, made, children, parentPath>>

\* top.get(path, handler, ...filters) in the nested program and the same
\* call on flat in the flat program.
NestedAndFlatGet(top, flat, p, fs) ==
  /\ nOps < MaxOps
  /\ handlers' = [handlers EXCEPT
                    ![top]["GET"] = Append(@, newEntry(top, p, newHandler(top), fs)),
                    ![flat]["GET"] = Append(@, newEntry(flat, p, newHandler(top), fs))]
  /\ nReg' = [nReg EXCEPT ![top] = @ + 1]
  /\ nOps' = nOps + 1
  /\ UNCHANGED <<path, filters, errMapper, parent, req, fluent, made, children, parentPath>>

\* ---------------------------------------------------------------- dispatch

\* The Error a filter or handler function throws: its message names it.
Error(name) == [message |-> <<"error in ", name>>]

\* The TypeError of reading a property of undefined.
TypeError == [message |-> <<"TypeError">>]

\* A default mapper that drops the message of the error.
messageLessMapper(err) == Response(EMPTY, 500)

\* DEFAULT_ERROR_MAPPER
DEFAULT_ERROR_MAPPER(err) == Response(err.message, 500)

\* What a configured error mapper returns for an error: a Response of its
\* own, the Response of DEFAULT_ERROR_MAPPER, or undefined.
MapperResults == {"custom", "default", "undefined"}
applyMapper(mapper, err, out) ==
  IF out = "custom" THEN Some(Response(<<mapper, ":">> \o err.message, 400))
  ELSE IF out = "default" THEN Some(DEFAULT_ERROR_MAPPER(err))
  ELSE Undefined

\* One entry of the record of what a handle() call invoked.
Call(kind, name, out) == [kind |-> kind, name |-> name, out |-> out]

\* An error mapping that does not ask the parent: the router's own mapper,
\* else the default mapper.
mapErrorOwnOnly(r, err, mo) ==
  LET own == IF errMapper[r] # Undefined THEN applyMapper(errMapper[r][1], err, mo[r])
             ELSE Undefined
      ownCalls == IF errMapper[r] # Undefined THEN <<Call("mapper", errMapper[r][1], own)>>
                  ELSE <<>>
  IN IF own # Undefined THEN [res |-> own[1], calls |-> ownCalls]
     ELSE [res |-> DEFAULT_ERROR_MAPPER(err),
           calls |-> Append(ownCalls, Call("mapper", "DEFAULT_ERROR_MAPPER",
                                           Some(DEFAULT_ERROR_MAPPER(err))))]

\* The routers mapError visits from router r on: r, its parent, the parent's
\* parent, ...
RECURSIVE chain(_)
chain(r) == IF parent[r] = Undefined THEN <<r>> ELSE <<r>> \o chain(parent[r][1])

\* Route.mapError: the router's own mapper, else the parent's mapError, else
\* the default mapper.  mo says what the mapper of each router returns.  The
\* result is the Response and the mappers invoked on the way.
RECURSIVE mapError(_, _, _)
mapError(r, err, mo) ==
  LET own == IF errMapper[r] # Undefined THEN applyMapper(errMapper[r][1], err, mo[r])
             ELSE Undefined
      ownCalls == IF errMapper[r] # Undefined THEN <<Call("mapper", errMapper[r][1], own)>>
                  ELSE <<>>
  IN IF own # Undefined THEN [res |-> own[1], calls |-> ownCalls]
     ELSE IF parent[r] # Undefined
       THEN LET up == mapError(parent[r][1], err, mo)
            IN [res |-> up.res, calls |-> ownCalls \o up.calls]
     ELSE [res |-> DEFAULT_ERROR_MAPPER(err),
           calls |-> Append(ownCalls, Call("mapper", "DEFAULT_ERROR_MAPPER",
                                           Some(DEFAULT_ERROR_MAPPER(err))))]

\* The catch block of Route.handle: the call resolves with mapError's Response.
caught(rq, err, mo) ==
  LET m == mapError(rq.route, err, mo)
  IN [rq EXCEPT !.pc = "done", !.error = Some(err), !.res = Some(m.res),
                !.invoked = @ \o m.calls]

\* A scan that keeps the last entry whose pattern tests the url.
lastMatch(list, url) ==
  IF \E i \in 1..Len(list) : patternTest(list[i].pattern, url)
  THEN CHOOSE i \in 1..Len(list) :
         /\ patternTest(list[i].pattern, url)
         /\ \A j \in (i + 1)..Len(list) : ~patternTest(list[j].pattern, url)
  ELSE 0

\* The index of the first entry of list whose pattern tests the url, 0 if
\* there is none: Array.prototype.find.
firstMatch(list, url) ==
  IF \E i \in 1..Len(list) : patternTest(list[i].pattern, url)
  THEN CHOOSE i \in 1..Len(list) :
         /\ patternTest(list[i].pattern, url)
         /\ \A j \in 1..(i - 1) : ~patternTest(list[j].pattern, url)
  ELSE 0

\* A lookup that falls back to the first entry of the list when no pattern
\* tests the url.
findMatchHandlerOrFirst(r, method, url) ==
  LET i == firstMatch(handlers[r][method], url)
  IN IF i # 0 THEN Some(handlers[r][method][i])
     ELSE IF handlers[r][method] # <<>> THEN Some(handlers[r][method][1])
     ELSE Undefined

\* Route.findMatchHandler (for a method of the enum)
findMatchHandler(r, method, url) ==
  LET i == firstMatch(handlers[r][method], url)
  IN IF i = 0 THEN Undefined ELSE Some(handlers[r][method][i])

\* `await matcher.handler(req, ctx)`, up to the await: the handler is called
\* and either throws (out = "throw") or returns a Response or a promise.
callHandler(rq, out, mo) ==
  LET h == rq.matcher[1].handler
      called == [rq EXCEPT !.invoked = Append(@, Call("handler", h, Undefined))]
  IN IF out = "throw" THEN caught(called, Error(h), mo)
     ELSE [called EXCEPT !.pc = "awaitHandler"]

\* A handle() that looks up the filters of the router an absorbed entry came
\* from when the request is dispatched, in place of those sub() captured.
handleBeginLiveChildFilters(r, method, url, hout, mo) ==
  LET base == [Idle EXCEPT !.route = r, !.method = method, !.url = url]
  IN IF method \notin Methods THEN caught(base, TypeError, mo)
     ELSE LET matcher == findMatchHandler(r, method, url)
          IN IF matcher = Undefined
             THEN [base EXCEPT !.pc = "done", !.res = Some(Response(EMPTY, 404))]
             ELSE LET hm == matcher[1]
                      ctx == assign([k \in {"client"} |-> Undefined],
                                    patternExec(hm.pattern, url))
                      all == filters[r]
                               \o (IF owner(hm.handler) = r THEN hm.middleFilters
                                   ELSE filters[owner(hm.handler)])
                               \o hm.filters
                      rq == [base EXCEPT !.matcher = matcher, !.ctx = ctx, !.todo = all]
                  IN IF all # <<>> THEN [rq EXCEPT !.pc = "filter"]
                     ELSE callHandler(rq, hout, mo)

\* A handle() that runs the router's own filters for the entries the router
\* registered itself only, not for the entries it absorbed.
handleBeginOwnEntriesOnly(r, method, url, hout, mo) ==
  LET base == [Idle EXCEPT !.route = r, !.method = method, !.url = url]
  IN IF method \notin Methods THEN caught(base, TypeError, mo)
     ELSE LET matcher == findMatchHandler(r, method, url)
          IN IF matcher = Undefined
             THEN [base EXCEPT !.pc = "done", !.res = Some(Response(EMPTY, 404))]
             ELSE LET hm == matcher[1]
                      ctx == assign([k \in {"client"} |-> Undefined],
                                    patternExec(hm.pattern, url))
                      all == (IF owner(hm.handler) = r THEN filters[r] ELSE <<>>)
                               \o hm.middleFilters \o hm.filters
                      rq == [base EXCEPT !.matcher = matcher, !.ctx = ctx, !.todo = all]
                  IN IF all # <<>> THEN [rq EXCEPT !.pc = "filter"]
                     ELSE callHandler(rq, hout, mo)

\* Route.handle up to its first suspension.  A method outside the enum has
\* no list, and reading its find property throws inside the try block.
handleBegin(r, method, url, hout, mo) ==
  LET base == [Idle EXCEPT !.route = r, !.method = method, !.url = url]
  IN IF method \notin Methods THEN caught(base, TypeError, mo)
     ELSE LET matcher == findMatchHandler(r, method, url)
          IN IF matcher = Undefined
             THEN [base EXCEPT !.pc = "done", !.res = Some(Response(EMPTY, 404))]
             ELSE LET hm == matcher[1]
                      ctx == assign([k \in {"client"} |-> Undefined],
                                    patternExec(hm.pattern, url))
                      all == filters[r] \o hm.middleFilters \o hm.filters
                      rq == [base EXCEPT !.matcher = matcher, !.ctx = ctx, !.todo = all]
                  IN IF all # <<>> THEN [rq EXCEPT !.pc = "filter"]
                     ELSE callHandler(rq, hout, mo)

\* A handle() that collects the filters of the matched entry in the router's
\* own filter list instead of a list of its own.
handleStartPushesFilters(q, r, method, url, hout, mo) ==
  /\ req[q].pc = "idle"
  /\ req' = [req EXCEPT ![q] = handleBegin(r, method, url, hout, mo)]
  /\ filters' = [filters EXCEPT ![r] =
                   IF req'[q].matcher = Undefined THEN @
                   ELSE @ \o req'[q].matcher[1].middleFilters \o req'[q].matcher[1].filters]
  /\ UNCHANGED <<path, errMapper, parent, handlers, nReg, nOps, fluent, made, children, parentPath>>

\* A call of handle(req) on router r.
HandleStart(q, r, method, url, hout, mo) ==
  /\ req[q].pc = "idle"
  /\ req' = [req EXCEPT ![q] = handleBegin(r, method, url, hout, mo)]
  /\ UNCHANGED <<path, filters, errMapper, parent, handlers, nReg, nOps, fluent, made, children, parentPath>>

\* An executeFilters that takes the next filter from the router's filter
\* list as it is when the filter is called, not from the array handle()
\* built when it started.
filterCallLive(q, out, mo) ==
  /\ req[q].pc = "filter"
  /\ LET rq == req[q]
         live == filters[rq.route] \o rq.matcher[1].middleFilters \o rq.matcher[1].filters
         n == Cardinality({i \in 1..Len(rq.invoked) : rq.invoked[i].kind = "filter"}) + 1
         f == IF n <= Len(live) THEN live[n] ELSE Head(rq.todo)
         called == [rq EXCEPT !.invoked = Append(@, Call("filter", f, Undefined))]
     IN req' = [req EXCEPT ![q] =
                  IF out = "throw" THEN caught(called, Error(f), mo)
                  ELSE [called EXCEPT !.pc = "awaitFilter"]]
  /\ UNCHANGED <<path, filters, errMapper, parent, handlers, nReg, nOps, fluent, made, children, parentPath>>

\* An executeFilters that calls all its filters at once and awaits them
\* afterwards.
filterCallAtOnce(q, out, mo) ==
  /\ req[q].pc = "filter"
  /\ LET f == Head(req[q].todo)
         called == [req[q] EXCEPT !.invoked =
                      @ \o [i \in 1..Len(req[q].todo) |->
                              Call("filter", req[q].todo[i], Undefined)]]
     IN req' = [req EXCEPT ![q] =
                  IF out = "throw" THEN caught(called, Error(f), mo)
                  ELSE [called EXCEPT !.pc = "awaitFilter"]]
  /\ UNCHANGED <<path, filters, errMapper, parent, handlers, nReg, nOps, fluent, made, children, parentPath>>

\* executeFilters: the next filter is called; it throws or returns.
FilterCall(q, out, mo) ==
  /\ req[q].pc = "filter"
  /\ LET f == Head(req[q].todo)
         called == [req[q] EXCEPT !.invoked = Append(@, Call("filter", f, Undefined))]
     IN req' = [req EXCEPT ![q] =
                  IF out = "throw" THEN caught(called, Error(f), mo)
                  ELSE [called EXCEPT !.pc = "awaitFilter"]]
  /\ UNCHANGED <<path, filters, errMapper, parent, handlers, nReg, nOps, fluent, made, children, parentPath>>

\* An executeFilters whose context is one object for all the calls in
\* flight: the mapping of a filter is merged into each of them.
filterSettleShared(q, out, mo) ==
  /\ req[q].pc = "awaitFilter"
  /\ LET rq == req[q]
         rest == Tail(rq.todo)
     IN req' = [p \in DOMAIN req |->
                  IF p # q
                  THEN IF out.kind = "data" /\ req[p].pc \in {"filter", "awaitFilter", "handler"}
                       THEN [req[p] EXCEPT !.ctx = assign(@, out.data)] ELSE req[p]
                  ELSE IF out.kind = "reject" THEN caught(rq, Error(Head(rq.todo)), mo)
                  ELSE [rq EXCEPT !.ctx = IF out.kind = "data" THEN assign(@, out.data) ELSE @,
                                  !.todo = rest,
                                  !.pc = IF rest = <<>> THEN "handler" ELSE "filter"]]
  /\ UNCHANGED <<path, filters, errMapper, parent, handlers, nReg, nOps, fluent, made, children, parentPath>>

\* An executeFilters that takes a rejected filter for one that returned
\* nothing and goes on.
filterSettleGoesOn(q, out, mo) ==
  /\ req[q].pc = "awaitFilter"
  /\ LET rq == req[q]
         rest == Tail(rq.todo)
     IN req' = [req EXCEPT ![q] =
                  [rq EXCEPT !.ctx = IF out.kind = "data" THEN assign(@, out.data) ELSE @,
                             !.todo = rest,
                             !.pc = IF rest = <<>> THEN "handler" ELSE "filter"]]
  /\ UNCHANGED <<path, filters, errMapper, parent, handlers, nReg, nOps, fluent, made, children, parentPath>>

\* executeFilters: `await filter(req, ctx)` settles.  out.kind is "reject"
\* (the promise rejects), "void" (no data) or "data" (the mapping out.data,
\* which Object.assign merges into the context).
FilterSettle(q, out, mo) ==
  /\ req[q].pc = "awaitFilter"
  /\ LET rq == req[q]
         rest == Tail(rq.todo)
     IN req' = [req EXCEPT ![q] =
                  IF out.kind = "reject" THEN caught(rq, Error(Head(rq.todo)), mo)
                  ELSE [rq EXCEPT !.ctx = IF out.kind = "data" THEN assign(@, out.data) ELSE @,
                                  !.todo = rest,
                                  !.pc = IF rest = <<>> THEN "handler" ELSE "filter"]]
  /\ UNCHANGED <<path, filters, errMapper, parent, handlers, nReg, nOps, fluent, made, children, parentPath>>

\* The handler is called after the filters.
HandlerCall(q, out, mo) ==
  /\ req[q].pc = "handler"
  /\ req' = [req EXCEPT ![q] = callHandler(req[q], out, mo)]
  /\ UNCHANGED <<path, filters, errMapper, parent, handlers, nReg, nOps, fluent, made, children, parentPath>>

\* A handle() that goes on waiting when the handler's promise has settled.
handlerSettleWaits(q, out, mo) ==
  /\ req[q].pc = "awaitHandler"
  /\ req' = [req EXCEPT ![q] = [@ EXCEPT !.pc = "awaitHandler"]]
  /\ UNCHANGED <<path, filters, errMapper, parent, handlers, nReg, nOps, fluent, made, children, parentPath>>

\* A handle() that calls a handler whose promise rejected a second time
\* before it gives the error to mapError.
handlerSettleRetries(q, out, mo) ==
  /\ req[q].pc = "awaitHandler"
  /\ LET rq == req[q]
         h == rq.matcher[1].handler
         calls == {i \in 1..Len(rq.invoked) : rq.invoked[i].kind = "handler"}
     IN req' = [req EXCEPT ![q] =
                  IF out = "reject"
                  THEN IF Cardinality(calls) < 2 THEN [rq EXCEPT !.pc = "handler"]
                       ELSE caught(rq, Error(h), mo)
                  ELSE [rq EXCEPT !.pc = "done", !.res = Some(Response(<<h>>, 200))]]
  /\ UNCHANGED <<path, filters, errMapper, parent, handlers, nReg, nOps, fluent, made, children, parentPath>>

\* `return await matcher.handler(req, ctx)`: the handler's result settles.  A
\* fulfilled one is returned as it is, a rejected one is caught.
HandlerSettle(q, out, mo) ==
  /\ req[q].pc = "awaitHandler"
  /\ LET rq == req[q]
         h == rq.matcher[1].handler
     IN req' = [req EXCEPT ![q] =
                  IF out = "reject" THEN caught(rq, Error(h), mo)
                  ELSE [rq EXCEPT !.pc = "done", !.res = Some(Response(<<h>>, 200))]]
  /\ UNCHANGED <<path, filters, errMapper, parent, handlers, nReg, nOps, fluent, made, children, parentPath>>

\* The caller has the Response (or the rejection) of a handle() call.
Return(q) ==
  /\ req[q].pc = "done"
  /\ req' = [req EXCEPT ![q] = Idle]
  /\ UNCHANGED <<path, filters, errMapper, parent, handlers, nReg, nOps, fluent, made, children, parentPath>>

\* --------------------------------------------- the Route of src/mod.ts

\* Route.add of mod.ts: the pattern is rootPath + path, or path alone when
\* the router has no root path.
mod_add(r, method, p, handler, fs) ==
  LET pathname == IF path[r] # EMPTY THEN path[r] \o p ELSE p
  IN handlers' = [handlers EXCEPT ![r][method] =
                    Append(@, [pattern |-> pathname, handler |-> handler, filters |-> fs,
                               path |-> p, middlePath |-> EMPTY, middleFilters |-> <<>>])]

\* A call of get(path, handler, ...filters) of mod.ts with a new handler.
ModGet(r, p, fs) ==
  /\ nOps < MaxOps
  /\ mod_add(r, "GET", p, newHandler(r), fs)
  /\ nReg' = [nReg EXCEPT ![r] = @ + 1]
  /\ nOps' = nOps + 1
  /\ UNCHANGED <<path, filters, errMapper, parent, req, fluent, made, children, parentPath>>

\* The catch block of Route.handle of mod.ts: the call resolves with what
\* the router's error mapper returns.
mod_caught(rq, err, mo) ==
  LET out == applyMapper(errMapper[rq.route][1], err, mo[rq.route])
  IN [rq EXCEPT !.pc = "done", !.error = Some(err), !.res = out,
                !.invoked = Append(@, Call("mapper", errMapper[rq.route][1], out))]

\* `return cfg.handler(req, ctx)`: the handler is called; a throw is caught,
\* a returned Response or promise becomes the result of handle().
mod_callHandler(rq, out, mo) ==
  LET h == rq.matcher[1].handler
      called == [rq EXCEPT !.invoked = Append(@, Call("handler", h, Undefined))]
  IN IF out = "throw" THEN mod_caught(called, Error(h), mo)
     ELSE [called EXCEPT !.pc = "modAwaitHandler"]

\* Route.handle of mod.ts after the router's filters: the path parameters are
\* merged into the context, then the filters of the entry run.
mod_afterRouteFilters(rq) ==
  LET hm == rq.matcher[1]
      merged == [rq EXCEPT !.ctx = assign(@, patternExec(hm.pattern, rq.url)),
                           !.todo = hm.filters]
  IN [merged EXCEPT !.pc = IF hm.filters # <<>> THEN "modFilter" ELSE "modHandler"]

\* Route.handle of mod.ts up to its first filter or to the handler.
mod_handleBegin(r, method, url, mo) ==
  LET base == [Idle EXCEPT !.route = r, !.method = method, !.url = url]
  IN IF method \notin Methods THEN mod_caught(base, TypeError, mo)
     ELSE LET i == firstMatch(handlers[r][method], url)
          IN IF i = 0
             THEN [base EXCEPT !.pc = "done", !.res = Some(Response(EMPTY, 404))]
             ELSE LET rq == [base EXCEPT !.matcher = Some(handlers[r][method][i]),
                                         !.ctx = [k \in {"client"} |-> Undefined],
                                         !.todo = filters[r]]
                  IN IF filters[r] # <<>> THEN [rq EXCEPT !.pc = "modRouteFilter"]
                     ELSE mod_afterRouteFilters(rq)

\* A call of handle(req) on router r of mod.ts.
ModHandleStart(q, r, method, url, mo) ==
  /\ req[q].pc = "idle"
  /\ req' = [req EXCEPT ![q] = mod_handleBegin(r, method, url, mo)]
  /\ UNCHANGED <<path, filters, errMapper, parent, handlers, nReg, nOps, fluent, made, children, parentPath>>

\* executeFilters of mod.ts: the next filter is called; it throws or returns.
ModFilterCall(q, out, mo) ==
  /\ req[q].pc \in {"modRouteFilter", "modFilter"}
  /\ LET f == Head(req[q].todo)
         called == [req[q] EXCEPT !.invoked = Append(@, Call("filter", f, Undefined))]
     IN req' = [req EXCEPT ![q] =
                  IF out = "throw" THEN mod_caught(called, Error(f), mo)
                  ELSE [called EXCEPT !.pc = IF req[q].pc = "modRouteFilter"
                                             THEN "modAwaitRouteFilter" ELSE "modAwaitFilter"]]
  /\ UNCHANGED <<path, filters, errMapper, parent, handlers, nReg, nOps, fluent, made, children, parentPath>>

\* executeFilters of mod.ts: `await filter(req, ctx)` settles.
ModFilterSettle(q, out, mo) ==
  /\ req[q].pc \in {"modAwaitRouteFilter", "modAwaitFilter"}
  /\ LET rq == req[q]
         rest == Tail(rq.todo)
         next == [rq EXCEPT !.ctx = IF out.kind = "data" THEN assign(@, out.data) ELSE @,
                            !.todo = rest]
     IN req' = [req EXCEPT ![q] =
                  IF out.kind = "reject" THEN mod_caught(rq, Error(Head(rq.todo)), mo)
                  ELSE IF rq.pc = "modAwaitRouteFilter"
                    THEN IF rest = <<>> THEN mod_afterRouteFilters(next)
                         ELSE [next EXCEPT !.pc = "modRouteFilter"]
                  ELSE [next EXCEPT !.pc = IF rest = <<>> THEN "modHandler" ELSE "modFilter"]]
  /\ UNCHANGED <<path, filters, errMapper, parent, handlers, nReg, nOps, fluent, made, children, parentPath>>

\* The handler is called after the filters.
ModHandlerCall(q, out, mo) ==
  /\ req[q].pc = "modHandler"
  /\ req' = [req EXCEPT ![q] = mod_callHandler(req[q], out, mo)]
  /\ UNCHANGED <<path, filters, errMapper, parent, handlers, nReg, nOps, fluent, made, children, parentPath>>

\* The promise an async handler returned settles.  handle() returned it
\* without await: it is not inside the try block any more, and the promise of
\* handle() settles as it does - a rejection is the rejection of handle().
ModHandlerSettle(q, out) ==
  /\ req[q].pc = "modAwaitHandler"
  /\ LET rq == req[q]
         h == rq.matcher[1].handler
     IN req' = [req EXCEPT ![q] =
                  IF out = "reject"
                  THEN [rq EXCEPT !.pc = "done", !.error = Some(Error(h)),
                                  !.rejected = Some(Error(h))]
                  ELSE [rq EXCEPT !.pc = "done", !.res = Some(Response(<<h>>, 200))]]
  /\ UNCHANGED <<path, filters, errMapper, parent, handlers, nReg, nOps, fluent, made, children, parentPath>>

\* What a set-up function of mod.ts returns when called on router r:
\* get, post, put, delete, options, trace and patch return this.add(...),
\* which returns this; filter and errorMapper return this; head calls
\* this.add(...) and returns nothing.
mod_returned(fn, r) == IF fn = "head" THEN Undefined ELSE Some(r)

\* The set-up functions of mod.ts a fluent expression can call.
ModFluentFns == RegistrationFns \cup {"filter", "errorMapper"}

\* The next call of the caller's fluent expression on the Route of mod.ts:
\* value.fn(...).  A call on undefined throws a TypeError; a call on a router
\* does what fn does and leaves what fn returned as the value.
ModFluentCall(fn, p, fs) ==
  /\ nOps < MaxOps
  /\ ~fluent.thrown
  /\ nOps' = nOps + 1
  /\ IF fluent.value = Undefined
     THEN /\ fluent' = [fluent EXCEPT !.thrown = TRUE]
          /\ UNCHANGED <<handlers, filters, errMapper, nReg>>
     ELSE LET r == fluent.value[1]
          IN /\ fluent' = [fluent EXCEPT !.value = mod_returned(fn, r)]
             /\ CASE fn = "filter" ->
                       /\ filters' = [filters EXCEPT ![r] = fs]
                       /\ UNCHANGED <<handlers, errMapper, nReg>>
                  [] fn = "errorMapper" ->
                       /\ errMapper' = [errMapper EXCEPT ![r] = Some(routeMapper(r))]
                       /\ UNCHANGED <<handlers, filters, nReg>>
                  [] OTHER ->
                       /\ mod_add(r, methodOf(fn), p, newHandler(r), fs)
                       /\ nReg' = [nReg EXCEPT ![r] = @ + 1]
                       /\ UNCHANGED <<filters, errMapper>>
  /\ UNCHANGED <<path, parent, req, made, children, parentPath>>

\* ------------------------------------------------- handler/allow_cors.ts

\* Number.prototype.toFixed(0) and `${n}` of a non-negative integer: its
\* decimal digits.
RECURSIVE decimal(_)
decimal(n) ==
  LET digit == <<"0", "1", "2", "3", "4", "5", "6", "7", "8", "9">>[(n % 10) + 1]
  IN IF n < 10 THEN <<digit>> ELSE decimal(n \div 10) \o <<digit>>

\* headers[name] = value, made when the condition of its `if` holds.
header(cond, name, value) == IF cond THEN {<<name, value>>} ELSE {}

DEFAULT_CORS_OPTIONS ==
  [allowOrigin |-> <<"*">>, allowMethods |-> <<"GET, POST, PUT, PATCH, DELETE">>,
   allowHeaders |-> <<"Authorization">>]

\* The handler that create(options) of allow_cors.ts returns, called with a
\* request of the given method.  A string is truthy when it is not empty, a
\* number when it is not 0.
cors_handle(opts, method) ==
  LET allowOrigin == IF opts.allowOrigin = Undefined THEN DEFAULT_CORS_OPTIONS.allowOrigin
                     ELSE opts.allowOrigin[1]
      allowMethods == IF opts.allowMethods = Undefined THEN DEFAULT_CORS_OPTIONS.allowMethods
                      ELSE opts.allowMethods[1]
      allowHeaders == IF opts.allowHeaders = Undefined THEN DEFAULT_CORS_OPTIONS.allowHeaders
                      ELSE opts.allowHeaders[1]
  IN IF method # "OPTIONS" THEN Response(EMPTY, 405)
     ELSE [status |-> 204, body |-> EMPTY,
           headers |->
             header(allowOrigin # EMPTY, "Access-Control-Allow-Origin", allowOrigin)
             \cup header(allowMethods # EMPTY, "Access-Control-Allow-Methods", allowMethods)
             \cup header(allowHeaders # EMPTY, "Access-Control-Allow-Headers", allowHeaders)
             \cup header(opts.allowCredentials # Undefined,
                         "Access-Control-Allow-Credentials",
                         IF opts.allowCredentials = Some(TRUE) THEN <<"true">>
                         ELSE <<"false">>)
             \cup header(opts.maxAge # Undefined /\ opts.maxAge # Some(0),
                         "Access-Control-Max-Age",
                         IF opts.maxAge = Undefined THEN EMPTY
                         ELSE decimal(opts.maxAge[1]))]

\* create(options) of allow_cors.ts: a handler with these options is made.
CorsCreate(opts) ==
  /\ made' = [made EXCEPT !.cors = opts]
  /\ UNCHANGED <<path, filters, errMapper, parent, handlers, req, nReg, nOps, fluent, children, parentPath>>

\* The CORS handler is called with a request; it returns its Response at once.
CorsHandle(q, method) ==
  /\ req[q].pc = "idle"
  /\ req' = [req EXCEPT ![q] = [Idle EXCEPT !.pc = "done", !.method = method,
                                           !.res = Some(cors_handle(made.cors, method))]]
  /\ UNCHANGED <<path, filters, errMapper, parent, handlers, nReg, nOps, fluent, made, children, parentPath>>

\* ---------------------------------------------- handler/file_download.ts

\* The handler that create(options) of file_download.ts returns, called with
\* a request of the given method and url whose If-Modified-Since header is
\* ims (undefined, Some(undefined) for a text that is no date, or
\* Some(Some(ms))).  f is what the file system says of the file: whether
\* Deno.open finds it ("ok", "NotFound" or another "error"), whether it is a
\* regular file, its times in ms and its size.  ct is what the content type
\* parser returns, and fail names the awaited call that throws when it is
\* reached ("none": no call throws).  The result is the Response or the
\* error the call rejects with, and what became of the file it opened.
download_handle(opts, method, url, ims, f, ct, fail) ==
  LET filepath == <<".">> \o pathnameOf(url)
      utc(t) == <<"UTC:">> \o decimal(t \div 1000)
      text(body, status) ==
        [status |-> status, body |-> body,
         headers |-> {<<"content-type", <<"text/plain;charset=UTF-8">>>>}]
      out(res, file) == [res |-> Some(res), rejected |-> Undefined, file |-> file]
      throw(name, file) == [res |-> Undefined, rejected |-> Some(Error(name)), file |-> file]
      cors == opts.cors
      corsTruthy == cors # Undefined /\ (IF cors[1].type = "boolean" THEN cors[1].bool
                                         ELSE cors[1].str # EMPTY)
      h1 == header(corsTruthy, "Access-Control-Allow-Origin",
                   IF cors # Undefined /\ cors[1].type = "string" THEN cors[1].str ELSE <<"*">>)
      notModified == /\ f.mtime # Undefined
                     /\ ims # Undefined
                     /\ ims[1] # Undefined
                     /\ f.mtime[1] < ims[1][1] + 1000
      maxAge == opts.maxAge
      ma == IF maxAge = Undefined THEN Undefined ELSE maxAge[1].value
      h2 == h1 \cup {<<"content-type", ct>>}
               \cup header(ma # Undefined /\ ma # Some(0), "cache-control",
                           <<"max-age=">> \o (IF ma = Undefined THEN EMPTY ELSE decimal(ma[1])))
               \cup header(f.atime # Undefined, "date",
                           IF f.atime = Undefined THEN EMPTY ELSE utc(f.atime[1]))
               \cup header(f.mtime # Undefined, "last-modified",
                           IF f.mtime = Undefined THEN EMPTY ELSE utc(f.mtime[1]))
               \cup header(f.size # 0, "content-length", decimal(f.size))
      custom == opts.customHeadersParser
      h3 == IF custom = Undefined THEN h2
            ELSE {h \in h2 : \A c \in custom[1] : c[1] # h[1]} \cup custom[1]
  IN IF method # "GET" THEN out(Response(EMPTY, 405), "none")
     ELSE IF f.open = "NotFound"
       THEN out(text(<<"\"">> \o filepath \o <<"\" not found">>, 404), "none")
     ELSE IF f.open = "error" THEN throw("Deno.open", "none")
     ELSE IF fail = "stat" THEN throw("stat", "open")
     ELSE IF ~f.isFile
       THEN out(text(<<"\"">> \o filepath \o <<"\" is not a file">>, 404), "closed")
     ELSE IF notModified
       THEN out([status |-> 304, body |-> EMPTY, headers |-> h1], "closed")
     ELSE IF fail = "contentTypeParser" THEN throw("contentTypeParser", "open")
     ELSE IF fail = "maxAge" /\ maxAge # Undefined /\ maxAge[1].type = "function"
       THEN throw("maxAge", "open")
     ELSE IF fail = "customHeadersParser" /\ custom # Undefined
       THEN throw("customHeadersParser", "open")
     ELSE out([status |-> 200, body |-> <<"file.readable">>, headers |-> h3], "streaming")

\* create(options) of file_download.ts: a handler with these options is made.
DownloadCreate(opts) ==
  /\ made' = [made EXCEPT !.download = opts]
  /\ UNCHANGED <<path, filters, errMapper, parent, handlers, req, nReg, nOps, fluent, children, parentPath>>

\* The file download handler is called with a request and runs to its end.
DownloadHandle(q, method, url, ims, f, ct, fail) ==
  /\ req[q].pc = "idle"
  /\ LET r == download_handle(made.download, method, url, ims, f, ct, fail)
     IN req' = [req EXCEPT ![q] = [Idle EXCEPT !.pc = "done", !.method = method, !.url = url,
                                              !.res = r.res, !.rejected = r.rejected,
                                              !.error = r.rejected, !.file = r.file]]
  /\ UNCHANGED <<path, filters, errMapper, parent, handlers, nReg, nOps, fluent, made, children, parentPath>>

\* ------------------------------ the Route that keeps a tree of sub routes

\* Route.getFullPath: the root paths of the router's ancestors and its own.
RECURSIVE getFullPath(_)
getFullPath(r) ==
  joinUrlPath(<<IF parent[r] = Undefined THEN EMPTY ELSE getFullPath(parent[r][1]), path[r]>>)

\* Route.getAllFilters: the filters of the router's ancestors, then its own.
RECURSIVE getAllFilters(_)
getAllFilters(r) ==
  (IF parent[r] = Undefined THEN <<>> ELSE getAllFilters(parent[r][1])) \o filters[r]

\* Route.get(path, handler, ...filters) of this revision: add() compiles the
\* pattern from the ancestors' path, the sub path, the root path and the
\* path.  (Its entries have no middlePath and no middleFilters: they are
\* kept empty here.)
TreeGet(r, p, fs) ==
  /\ nOps < MaxOps
  /\ LET pth == autoSlashPrefix(p)
         ancestorPath == IF parent[r] = Undefined THEN EMPTY ELSE getFullPath(parent[r][1])
         pathname == joinUrlPath(<<ancestorPath, parentPath[r], path[r], pth>>)
     IN handlers' = [handlers EXCEPT ![r]["GET"] =
                       Append(@, [pattern |-> pathname, handler |-> newHandler(r),
                                  filters |-> fs, path |-> pth,
                                  middlePath |-> EMPTY, middleFilters |-> <<>>])]
  /\ nReg' = [nReg EXCEPT ![r] = @ + 1]
  /\ nOps' = nOps + 1
  /\ UNCHANGED <<path, filters, errMapper, parent, req, fluent, made, children, parentPath>>

\* Route.sub(route, path) of this revision: the sub route is pushed onto
\* #children, and #setParent sets its #parent and has #resetHandlerMatcher
\* compile the pattern of each of its entries anew.
TreeSub(this, route, arg) ==
  /\ nOps < MaxOps
  /\ this < route
  /\ LET subPath == IF arg = Undefined THEN EMPTY ELSE autoSlashPrefix(arg[1])
         ancestorPath == getFullPath(this)
     IN /\ children' = [children EXCEPT ![this] = Append(@, [route |-> route, path |-> subPath])]
        /\ parent' = [parent EXCEPT ![route] = Some(this)]
        /\ parentPath' = [parentPath EXCEPT ![route] = subPath]
        /\ handlers' = [handlers EXCEPT ![route] =
                          [m \in Methods |->
                             [i \in 1..Len(handlers[route][m]) |->
                                [handlers[route][m][i] EXCEPT !.pattern =
                                   joinUrlPath(<<ancestorPath, subPath, path[route],
                                                 handlers[route][m][i].path>>)]]]]
  /\ nOps' = nOps + 1
  /\ UNCHANGED <<path, filters, errMapper, req, nReg, fluent, made>>

\* Route.handle of this revision up to its first suspension: findMatchHandler
\* looks in the router's own list, then #findMatchSubRoute in the list of
\* each of its children in turn; the filters are those of the ancestors of
\* the route the entry is in, its own and the entry's; an error is mapped
\* by the router handle() was called on.
TreeHandleStart(q, r, method, url, hout, mo) ==
  /\ req[q].pc = "idle"
  /\ LET base == [Idle EXCEPT !.route = r, !.method = method, !.url = url]
         own == findMatchHandler(r, method, url)
         subs == {i \in 1..Len(children[r]) :
                    findMatchHandler(children[r][i].route, method, url) # Undefined}
         s == CHOOSE i \in subs : \A j \in subs : i <= j
         route == IF own # Undefined THEN r ELSE children[r][s].route
         matcher == IF own # Undefined THEN own ELSE findMatchHandler(route, method, url)
     IN req' = [req EXCEPT ![q] =
                  IF own = Undefined /\ subs = {}
                  THEN [base EXCEPT !.pc = "done", !.res = Some(Response(EMPTY, 404))]
                  ELSE LET hm == matcher[1]
                           ctx == assign([k \in {"client"} |-> Undefined],
                                         patternExec(hm.pattern, url))
                           all == getAllFilters(route) \o hm.filters
                           rq == [base EXCEPT !.matcher = matcher, !.ctx = ctx, !.todo = all]
                       IN IF all # <<>> THEN [rq EXCEPT !.pc = "filter"]
                          ELSE callHandler(rq, hout, mo)]
  /\ UNCHANGED <<path, filters, errMapper, parent, handlers, nReg, nOps, fluent, made,
                 children, parentPath>>

\* No handle() call is in flight.
Quiet == \A q \in DOMAIN req : req[q].pc = "idle"

\* ---------------------------------------------------------- specifications

P_h == <<"/", "h">>
P_a == <<"/", "a">>
P_m == <<"/", "m">>
Url(p) == [path |-> p, search |-> EMPTY]

CallOuts == {"throw", "return"}
SettleOuts == {"fulfil", "reject"}
FilterOuts == {[kind |-> "reject", data |-> NoData], [kind |-> "void", data |-> NoData]}
\* No router has an error mapper: what a mapper would return is of no matter.
NoMappers == [r \in Routers |-> "undefined"]
MapperOracles == [Routers -> MapperResults]

\* Spec: registration, composition and matching.  The set-up is made
\* before the requests are served.  Router 1 with and without a root path,
\* both call shapes of get() and sub(), a sub path that ends with '/', two
\* methods, entries with and without a filter, no error mapper.
SubArgs == {Undefined, Some(SLASH), Some(P_a)}
Urls == {Url(p) : p \in {EMPTY, P_h, P_a, P_a \o P_h, P_m \o P_h, P_a \o P_m \o P_h}}

Next ==
  \/ Quiet /\ \E r \in Routers, a \in {Undefined, Some(P_h)} : Get(r, a, <<newFilter(r)>>)
  \/ Quiet /\ \E r \in Routers : Post(r, Some(P_h), <<>>)
  \/ Quiet /\ \E p \in Routers, c \in Routers, a \in SubArgs : Sub(p, a, c, <<>>)
  \/ \E q \in Requests, r \in Routers, m \in {"GET", "POST"}, u \in Urls, o \in CallOuts :
       HandleStart(q, r, m, u, o, NoMappers)
  \/ \E q \in Requests, o \in CallOuts : FilterCall(q, o, NoMappers)
  \/ \E q \in Requests, o \in FilterOuts : FilterSettle(q, o, NoMappers)
  \/ \E q \in Requests, o \in CallOuts : HandlerCall(q, o, NoMappers)
  \/ \E q \in Requests, o \in SettleOuts : HandlerSettle(q, o, NoMappers)
  \/ \E q \in Requests : Return(q)

Spec == Init /\ [][Next]_vars

\* SpecNest: a chain of routers, router 2 absorbed by router 1 and router 1
\* by router 0, each with a filter of its own from its constructor, entries
\* at '/h' with a filter of their own, sub routes at '/a', error mappers on
\* any router, and mappers that return a Response of their own, the default
\* Response, or undefined.
InitNest ==
  InitWith({[r \in Routers |-> EMPTY]}, {[r \in Routers |-> <<routeFilter(r)>>]})

UrlsNest == {Url(p) : p \in {P_h, P_a \o P_h, P_a \o P_a \o P_h}}

NextNest ==
  \/ Quiet /\ \E r \in Routers : Get(r, Some(P_h), <<newFilter(r)>>)
  \/ Quiet /\ \E r \in Routers \ {0} : Sub(r - 1, Some(P_a), r, <<>>)
  \/ Quiet /\ \E r \in Routers : ErrorMapper(r, routeMapper(r))
  \/ \E q \in Requests, r \in Routers, u \in UrlsNest :
       HandleStart(q, r, "GET", u, "return", NoMappers)
  \/ \E q \in Requests : FilterCall(q, "return", NoMappers)
  \/ \E q \in Requests, mo \in MapperOracles : FilterCall(q, "throw", mo)
  \/ \E q \in Requests, o \in FilterOuts, mo \in MapperOracles : FilterSettle(q, o, mo)
  \/ \E q \in Requests : HandlerCall(q, "return", NoMappers)
  \/ \E q \in Requests, mo \in MapperOracles : HandlerCall(q, "throw", mo)
  \/ \E q \in Requests : HandlerSettle(q, "fulfil", NoMappers)
  \/ \E q \in Requests, mo \in MapperOracles : HandlerSettle(q, "reject", mo)
  \/ \E q \in Requests : Return(q)

SpecNest == InitNest /\ [][NextNest]_vars

\* SpecMod: the Route of mod.ts.  Every router starts with the default
\* mapper (the constructor sets it), router 0 with a filter and router 1 with
\* the root path '/m'; entries at '' and '/h' with and without a filter;
\* errorMapper() is the same code as in the other Route.
InitMod ==
  /\ path = [r \in Routers |-> IF r = 1 THEN P_m ELSE EMPTY]
  /\ filters = [r \in Routers |-> IF r = 0 THEN <<"f0">> ELSE <<>>]
  /\ errMapper = [r \in Routers |-> Some("DEFAULT_ERROR_MAPPER")]
  /\ parent = [r \in Routers |-> Undefined]
  /\ handlers = [r \in Routers |-> [m \in Methods |-> <<>>]]
  /\ req = [q \in Requests |-> Idle]
  /\ nReg = [r \in Routers |-> 0]
  /\ nOps = 0
  /\ fluent = NoChain
  /\ made = DefaultHandlers
  /\ children = [r \in Routers |-> <<>>]
  /\ parentPath = [r \in Routers |-> EMPTY]

UrlsMod == {Url(p) : p \in {EMPTY, P_h, P_m, P_m \o P_h}}
MapperOraclesMod == [Routers -> {"custom", "default"}]

NextMod ==
  \/ Quiet /\ \E r \in Routers, a \in {EMPTY, P_h} :
       \E fs \in {<<>>, <<newFilter(r)>>} : ModGet(r, a, fs)
  \/ Quiet /\ \E r \in Routers : ErrorMapper(r, routeMapper(r))
  \/ \E q \in Requests, r \in Routers, u \in UrlsMod :
       ModHandleStart(q, r, "GET", u, NoMappers)
  \/ \E q \in Requests : ModFilterCall(q, "return", NoMappers)
  \/ \E q \in Requests, mo \in MapperOraclesMod : ModFilterCall(q, "throw", mo)
  \/ \E q \in Requests, o \in FilterOuts, mo \in MapperOraclesMod : ModFilterSettle(q, o, mo)
  \/ \E q \in Requests : ModHandlerCall(q, "return", NoMappers)
  \/ \E q \in Requests, mo \in MapperOraclesMod : ModHandlerCall(q, "throw", mo)
  \/ \E q \in Requests, o \in SettleOuts : ModHandlerSettle(q, o)
  \/ \E q \in Requests : Return(q)

SpecMod == InitMod /\ [][NextMod]_vars

\* SpecFlat: the nested and the flat program of the README.  Router 0 is the
\* top route, router 1 the module route - new Route(), absorbed with
\* sub('/a', m), or new Route('/m'), absorbed with sub(m) - and router 2 the
\* flat route.  No router has filters of its own or an error mapper.
P_id == <<"/", ":id">>

InitFlat ==
  InitWith({[r \in Routers |-> EMPTY], [r \in Routers |-> IF r = 1 THEN P_m ELSE EMPTY]},
           {[r \in Routers |-> <<>>]})

UrlsFlat ==
  {Url(p) : p \in {EMPTY, P_h, P_a, P_a \o SLASH, P_a \o P_h, P_m, P_m \o SLASH, P_m \o P_h}}

NextFlat ==
  \/ Quiet /\ \E a \in {Undefined, Some(SLASH), Some(P_id)} : Get(1, a, <<>>)
  \/ Quiet /\ Get(1, Some(P_h), <<newFilter(1)>>)
  \/ Quiet /\ Post(1, Undefined, <<>>)
  \/ Quiet /\ NestedAndFlatSub(0, IF path[1] = EMPTY THEN Some(P_a) ELSE Undefined, 1, 2)
  \/ Quiet /\ \E a \in {P_h, P_a, P_m} : NestedAndFlatGet(0, 2, a, <<>>)
  \/ \E q \in Requests, r \in {0, 2}, m \in {"GET", "POST"}, u \in UrlsFlat, o \in CallOuts :
       HandleStart(q, r, m, u, o, NoMappers)
  \/ \E q \in Requests, o \in CallOuts : FilterCall(q, o, NoMappers)
  \/ \E q \in Requests, o \in FilterOuts : FilterSettle(q, o, NoMappers)
  \/ \E q \in Requests, o \in CallOuts : HandlerCall(q, o, NoMappers)
  \/ \E q \in Requests, o \in SettleOuts : HandlerSettle(q, o, NoMappers)
  \/ \E q \in Requests : Return(q)

SpecFlat == InitFlat /\ [][NextFlat]_vars

\* SpecReg: the eight registration functions on router 0, a new Route('/m'),
\* in the handler-first shape and in the path-first shape with the paths ''
\* and '/h', and GET and HEAD requests for the entries' paths.
InitReg ==
  InitWith({[r \in Routers |-> IF r = 0 THEN P_m ELSE EMPTY]}, {[r \in Routers |-> <<>>]})

RegArgs == {Undefined, Some(EMPTY), Some(P_h)}

NextReg ==
  \/ Quiet /\ nOps < MaxRegOps
       /\ \E fn \in RegistrationFns, a \in RegArgs : Register(0, fn, a, <<>>)
  \/ \E q \in Requests, m \in {"GET", "HEAD"}, u \in {Url(P_m), Url(P_m \o P_h)} :
       HandleStart(q, 0, m, u, "return", NoMappers)
  \/ \E q \in Requests : HandlerSettle(q, "fulfil", NoMappers)
  \/ \E q \in Requests : Return(q)

SpecReg == InitReg /\ [][NextReg]_vars

\* SpecFilter: filters.  Router 0 = new Route('', f0) and router 1 =
\* new Route('', f1) have a filter from their constructor, filter() gives
\* them none, one or two others, every entry is at '/:id' with a filter of
\* its own, router 0 absorbs router 1 at '/a' with or without a filter given
\* to sub(), and a filter throws, rejects, returns nothing or returns a
\* mapping, which may have the key of the path parameter.
MaxFilterOps == 3
FilterArgs == {<<>>, <<"g1">>, <<"g1", "g2">>}
SubFilterArgs == {<<>>, <<"s1">>}
FilterData == {[k \in {"a"} |-> <<"1">>], [k \in {"a"} |-> <<"2">>], [k \in {"id"} |-> <<"3">>]}
FilterOutsData == FilterOuts \cup {[kind |-> "data", data |-> d] : d \in FilterData}

InitFilter ==
  InitWith({[r \in Routers |-> EMPTY]},
           {[r \in Routers |-> IF r = 2 THEN <<>> ELSE <<routeFilter(r)>>]})

NextFilter ==
  \/ Quiet /\ nOps < MaxFilterOps /\ \E r \in {0, 1}, fs \in FilterArgs : Filter(r, fs)
  \/ Quiet /\ nOps < MaxFilterOps /\ \E r \in {0, 1} : Get(r, Some(P_id), <<newFilter(r)>>)
  \/ Quiet /\ nOps < MaxFilterOps /\ \E fs \in SubFilterArgs : Sub(0, Some(P_a), 1, fs)
  \/ \E q \in Requests, r \in {0, 1}, u \in {Url(P_h), Url(P_a \o P_h)} :
       HandleStart(q, r, "GET", u, "return", NoMappers)
  \/ \E q \in Requests, o \in CallOuts : FilterCall(q, o, NoMappers)
  \/ \E q \in Requests, o \in FilterOutsData : FilterSettle(q, o, NoMappers)
  \/ \E q \in Requests, o \in CallOuts : HandlerCall(q, o, NoMappers)
  \/ \E q \in Requests, o \in SettleOuts : HandlerSettle(q, o, NoMappers)
  \/ \E q \in Requests : Return(q)

SpecFilter == InitFilter /\ [][NextFilter]_vars

\* SpecCtxMod: the context of a request on the Route of mod.ts.  Router 0 =
\* new Route('', f0), filter() gives it none, one or two other filters, its
\* entries are at '/:id' with and without a filter of their own, no
\* errorMapper() call: every error is mapped by the default mapper.
DefaultMappers == [r \in Routers |-> "default"]

InitCtxMod ==
  /\ path = [r \in Routers |-> EMPTY]
  /\ filters = [r \in Routers |-> IF r = 0 THEN <<"f0">> ELSE <<>>]
  /\ errMapper = [r \in Routers |-> Some("DEFAULT_ERROR_MAPPER")]
  /\ parent = [r \in Routers |-> Undefined]
  /\ handlers = [r \in Routers |-> [m \in Methods |-> <<>>]]
  /\ req = [q \in Requests |-> Idle]
  /\ nReg = [r \in Routers |-> 0]
  /\ nOps = 0
  /\ fluent = NoChain
  /\ made = DefaultHandlers
  /\ children = [r \in Routers |-> <<>>]
  /\ parentPath = [r \in Routers |-> EMPTY]

NextCtxMod ==
  \/ Quiet /\ nOps < MaxFilterOps /\ \E fs \in FilterArgs : Filter(0, fs)
  \/ Quiet /\ nOps < MaxFilterOps
       /\ \E p \in {P_id, P_a \o P_id}, fs \in {<<>>, <<newFilter(0)>>} : ModGet(0, p, fs)
  \/ \E q \in Requests, u \in {Url(P_h), Url(P_a \o P_h)} :
       ModHandleStart(q, 0, "GET", u, DefaultMappers)
  \/ \E q \in Requests, o \in CallOuts : ModFilterCall(q, o, DefaultMappers)
  \/ \E q \in Requests, o \in FilterOutsData : ModFilterSettle(q, o, DefaultMappers)
  \/ \E q \in Requests, o \in CallOuts : ModHandlerCall(q, o, DefaultMappers)
  \/ \E q \in Requests, o \in SettleOuts : ModHandlerSettle(q, o)
  \/ \E q \in Requests : Return(q)

SpecCtxMod == InitCtxMod /\ [][NextCtxMod]_vars

\* SpecTwo: two handle() calls on router 0 = new Route('', f0), one after
\* the other or interleaved at their await points; entries at '/:id' and
\* '/a' with a filter of their own; filters return nothing or a mapping.
Requests2 == {1, 2}
MaxTwoOps == 2

InitTwo ==
  /\ path = [r \in Routers |-> EMPTY]
  /\ filters = [r \in Routers |-> IF r = 0 THEN <<"f0">> ELSE <<>>]
  /\ errMapper = [r \in Routers |-> Undefined]
  /\ parent = [r \in Routers |-> Undefined]
  /\ handlers = [r \in Routers |-> [m \in Methods |-> <<>>]]
  /\ req = [q \in Requests2 |-> Idle]
  /\ nReg = [r \in Routers |-> 0]
  /\ nOps = 0
  /\ fluent = NoChain
  /\ made = DefaultHandlers
  /\ children = [r \in Routers |-> <<>>]
  /\ parentPath = [r \in Routers |-> EMPTY]

NextTwo ==
  \/ Quiet /\ nOps < MaxTwoOps /\ \E p \in {P_id, P_a} : Get(0, Some(p), <<newFilter(0)>>)
  \/ \E q \in Requests2, u \in {Url(P_h), Url(P_a)} :
       HandleStart(q, 0, "GET", u, "return", NoMappers)
  \/ \E q \in Requests2 : FilterCall(q, "return", NoMappers)
  \/ \E q \in Requests2, o \in FilterOutsData \ FilterOuts : FilterSettle(q, o, NoMappers)
  \/ \E q \in Requests2 : FilterSettle(q, [kind |-> "void", data |-> NoData], NoMappers)
  \/ \E q \in Requests2 : HandlerCall(q, "return", NoMappers)
  \/ \E q \in Requests2 : HandlerSettle(q, "fulfil", NoMappers)
  \/ \E q \in Requests2 : Return(q)

SpecTwo == InitTwo /\ [][NextTwo]_vars

\* SpecExact: literal paths with and without a trailing slash.  Router 0 =
\* new Route(), router 1 = new Route('/m'), router 2 = new Route(); entries
\* at '', '/', '/h' and '/h/'; router 0 absorbs router 1 with sub(route) and
\* router 2 with sub('/a', route); the requests have the path '', '/', or a
\* path with or without a trailing slash, and a query string or none.
MaxExactOps == 3
ExactPaths == {EMPTY, SLASH, P_h, P_h \o SLASH}
UrlsExact ==
  {[path |-> p, search |-> s] :
     p \in {EMPTY, SLASH, P_h, P_h \o SLASH, P_m, P_m \o SLASH, P_a, P_a \o SLASH},
     s \in {EMPTY, <<"k", "=", "v">>}}

InitExact ==
  InitWith({[r \in Routers |-> IF r = 1 THEN P_m ELSE EMPTY]}, {[r \in Routers |-> <<>>]})

NextExact ==
  \/ Quiet /\ nOps < MaxExactOps /\ \E r \in Routers, p \in ExactPaths : Get(r, Some(p), <<>>)
  \/ Quiet /\ nOps < MaxExactOps /\ Sub(0, Undefined, 1, <<>>)
  \/ Quiet /\ nOps < MaxExactOps /\ Sub(0, Some(P_a), 2, <<>>)
  \/ \E q \in Requests, r \in Routers, u \in UrlsExact :
       HandleStart(q, r, "GET", u, "return", NoMappers)
  \/ \E q \in Requests : HandlerSettle(q, "fulfil", NoMappers)
  \/ \E q \in Requests : Return(q)

SpecExact == InitExact /\ [][NextExact]_vars

\* SpecParams: patterns with path parameters and a wildcard.  Router 0 =
\* new Route() gets entries at '/h', '/:p1/:p2', '/a/:id' and '/a/*', in any
\* order, and answers requests whose path has one to three segments, with
\* and without a trailing slash and a query string.
P_star == <<"/", "*">>
ParamPaths == {P_h, <<"/", ":p1", "/", ":p2">>, P_a \o P_id, P_a \o P_star}
UrlsParams ==
  {[path |-> p, search |-> s] :
     p \in {P_h, P_h \o SLASH, P_a, P_a \o SLASH, P_a \o P_h, P_a \o P_h \o P_m,
            P_m \o SLASH \o P_h},
     s \in {EMPTY, <<"k", "=", "v">>}}

InitParams == InitWith({[r \in Routers |-> EMPTY]}, {[r \in Routers |-> <<>>]})

NextParams ==
  \/ Quiet /\ nOps < MaxRegOps /\ \E p \in ParamPaths : Get(0, Some(p), <<>>)
  \/ \E q \in Requests, u \in UrlsParams : HandleStart(q, 0, "GET", u, "return", NoMappers)
  \/ \E q \in Requests : HandlerSettle(q, "fulfil", NoMappers)
  \/ \E q \in Requests : Return(q)

SpecParams == InitParams /\ [][NextParams]_vars

\* SpecCors: CORS handlers made with every combination of unset, empty and
\* set options - maxAge unset, 0 or 123, allowCredentials unset, false or
\* true - and called with OPTIONS and other methods.
CorsOptionsSet ==
  [allowOrigin : {Undefined, Some(EMPTY), Some(<<"example.com">>)}, allowMethods : {Undefined, Some(<<"GET">>)},
   allowHeaders : {Undefined, Some(<<"ABC">>)},
   allowCredentials : {Undefined, Some(TRUE), Some(FALSE)},
   maxAge : {Undefined, Some(0), Some(123)}]

\* The state after the two handler modules are loaded: their default
\* handlers are made, no request has been served.
InitHandlers == InitWith({[r \in Routers |-> EMPTY]}, {[r \in Routers |-> <<>>]})

NextCors ==
  \/ Quiet /\ \E o \in CorsOptionsSet : CorsCreate(o)
  \/ \E q \in Requests, m \in {"OPTIONS", "GET", "POST"} : CorsHandle(q, m)
  \/ \E q \in Requests : Return(q)

SpecCors == InitHandlers /\ [][NextCors]_vars

\* SpecDownload: file download handlers made with cors unset, false, true,
\* '' or a string, maxAge unset, 0, a number or a function, with and without
\* a customHeadersParser, called for files that are missing, unreadable, a
\* directory or a regular file, with and without an If-Modified-Since before
\* and after the file's time, and with any one awaited call throwing.
NextDownload ==
  \/ Quiet /\ \E c \in {Undefined} \cup
                        {Some([type |-> "boolean", bool |-> b, str |-> EMPTY]) : b \in BOOLEAN}
                        \cup {Some([type |-> "string", bool |-> FALSE, str |-> x]) :
                                x \in {EMPTY, <<"example.com">>}},
                 a \in {Undefined} \cup
                        {Some([type |-> t, value |-> v]) :
                           t \in {"number", "function"}, v \in {Some(0), Some(60)}}
                        \cup {Some([type |-> "function", value |-> Undefined])},
                 p \in {Undefined, Some({<<"x-custom", <<"1">>>>}),
                        Some({<<"content-type", <<"custom-type">>>>})} :
       DownloadCreate([cors |-> c, maxAge |-> a, customHeadersParser |-> p])
  \/ \E q \in Requests, m \in {"GET", "POST"},
        ims \in {Undefined, Some(Undefined), Some(Some(4000)), Some(Some(5000))},
        o \in {"ok", "NotFound", "error"}, isFile \in BOOLEAN,
        mtime \in {Undefined, Some(5500)}, size \in {0, 10},
        fail \in {"none", "stat", "contentTypeParser", "maxAge", "customHeadersParser"} :
       DownloadHandle(q, m, Url(P_h), ims,
                      [open |-> o, isFile |-> isFile, mtime |-> mtime, atime |-> Some(6000),
                       size |-> size],
                      <<"application/octet-stream">>, fail)
  \/ \E q \in Requests : Return(q)

SpecDownload == InitHandlers /\ [][NextDownload]_vars

\* SpecMethod: routers 0 and 1 with GET entries for '/h' and '/a', and
\* requests with the method GET and with PROPFIND, which is none of the
\* eight members of Method.
NextMethod ==
  \/ Quiet /\ nOps < MaxRegOps /\ \E r \in {0, 1}, p \in {P_h, P_a} : Get(r, Some(p), <<>>)
  \/ \E q \in Requests, r \in {0, 1}, m \in {"GET", "PROPFIND"}, u \in {Url(P_h), Url(P_a)},
        o \in CallOuts :
       HandleStart(q, r, m, u, o, NoMappers)
  \/ \E q \in Requests, o \in SettleOuts : HandlerSettle(q, o, NoMappers)
  \/ \E q \in Requests : Return(q)

SpecMethod == InitParams /\ [][NextMethod]_vars

\* SpecTree: the Route that keeps a tree of sub routes.  Router 0 is
\* new Route('', f0), router 1 is new Route('/m'), router 2 is new Route();
\* entries for '/h', sub routes with and without a sub path, a sub route
\* given to two parents.
NextTree ==
  \/ Quiet /\ \E r \in Routers : TreeGet(r, P_h, <<newFilter(r)>>)
  \/ Quiet /\ \E p \in Routers, c \in Routers, a \in {Undefined, Some(P_a)} : TreeSub(p, c, a)
  \/ \E q \in Requests, r \in Routers, u \in Urls, o \in CallOuts :
       TreeHandleStart(q, r, "GET", u, o, NoMappers)
  \/ \E q \in Requests, o \in CallOuts : FilterCall(q, o, NoMappers)
  \/ \E q \in Requests, o \in FilterOuts : FilterSettle(q, o, NoMappers)
  \/ \E q \in Requests, o \in CallOuts : HandlerCall(q, o, NoMappers)
  \/ \E q \in Requests, o \in SettleOuts : HandlerSettle(q, o, NoMappers)
  \/ \E q \in Requests : Return(q)

SpecTree == Init /\ [][NextTree]_vars

\* SpecNestLive: SpecNest with every filter and handler called completing
\* (its call returns or throws, its promise settles) and the caller taking
\* the Response: the continuation of a settled await is always run.
SpecNestLive ==
  /\ SpecNest
  /\ WF_vars(\E q \in Requests, o \in CallOuts, mo \in MapperOracles : FilterCall(q, o, mo))
  /\ WF_vars(\E q \in Requests, o \in FilterOuts, mo \in MapperOracles : FilterSettle(q, o, mo))
  /\ WF_vars(\E q \in Requests, o \in CallOuts, mo \in MapperOracles : HandlerCall(q, o, mo))
  /\ WF_vars(\E q \in Requests, o \in SettleOuts, mo \in MapperOracles : HandlerSettle(q, o, mo))
  /\ WF_vars(\E q \in Requests : Return(q))

\* SpecLate: the set-up calls are made at any time, also while a request is
\* suspended in a filter or in the handler: filter(), get(), sub() and
\* errorMapper() on routers 0 and 1, one request at a time, filters and
\* handlers that throw, reject or return, mappers that answer or decline.
NextLate ==
  \/ nOps < MaxFilterOps /\ \E r \in {0, 1}, fs \in {<<>>, <<"g1">>} : Filter(r, fs)
  \/ nOps < MaxFilterOps /\ \E r \in {0, 1} : Get(r, Some(P_id), <<newFilter(r)>>)
  \/ nOps < MaxFilterOps /\ Sub(0, Undefined, 1, <<>>)
  \/ nOps < MaxFilterOps /\ \E r \in {0, 1} : ErrorMapper(r, routeMapper(r))
  \/ \E q \in Requests, r \in {0, 1}, o \in CallOuts :
       HandleStart(q, r, "GET", Url(P_h), o, NoMappers)
  \/ \E q \in Requests, o \in CallOuts, mo \in {NoMappers, [r \in Routers |-> "custom"]} :
       FilterCall(q, o, mo)
  \/ \E q \in Requests, o \in FilterOuts, mo \in {NoMappers, [r \in Routers |-> "custom"]} :
       FilterSettle(q, o, mo)
  \/ \E q \in Requests, o \in CallOuts, mo \in {NoMappers, [r \in Routers |-> "custom"]} :
       HandlerCall(q, o, mo)
  \/ \E q \in Requests, o \in SettleOuts, mo \in {NoMappers, [r \in Routers |-> "custom"]} :
       HandlerSettle(q, o, mo)
  \/ \E q \in Requests : Return(q)

SpecLate == InitFilter /\ [][NextLate]_vars

\* SpecFluentMod: one fluent expression new Route('/m').a(...).b(...)... on
\* the Route of mod.ts, its calls taken from the eight registration
\* functions, filter() and errorMapper(), and requests on the router.
InitFluentMod ==
  /\ path = [r \in Routers |-> IF r = 0 THEN P_m ELSE EMPTY]
  /\ filters = [r \in Routers |-> <<>>]
  /\ errMapper = [r \in Routers |-> Some("DEFAULT_ERROR_MAPPER")]
  /\ parent = [r \in Routers |-> Undefined]
  /\ handlers = [r \in Routers |-> [m \in Methods |-> <<>>]]
  /\ req = [q \in Requests |-> Idle]
  /\ nReg = [r \in Routers |-> 0]
  /\ nOps = 0
  /\ fluent = NoChain
  /\ made = DefaultHandlers
  /\ children = [r \in Routers |-> <<>>]
  /\ parentPath = [r \in Routers |-> EMPTY]

NextFluentMod ==
  \/ Quiet /\ nOps < MaxRegOps /\ \E fn \in ModFluentFns : ModFluentCall(fn, P_h, <<>>)
  \/ \E q \in Requests, m \in {"GET", "HEAD"} :
       ModHandleStart(q, 0, m, Url(P_m \o P_h), NoMappers)
  \/ \E q \in Requests, o \in CallOuts, mo \in MapperOraclesMod : ModHandlerCall(q, o, mo)
  \/ \E q \in Requests, o \in SettleOuts : ModHandlerSettle(q, o)
  \/ \E q \in Requests : Return(q)

SpecFluentMod == InitFluentMod /\ [][NextFluentMod]_vars

\* ------------------------------------------------------------------ claims

\* C1: handle() dispatches to the earliest entry of the request method's list
\* whose pattern tests the URL: the matched entry is that entry, and the only
\* filters and handler the call invokes are the router's own filters and the
\* filters and handler of that entry - none of a later matching entry, none
\* of an entry of another method's list.
C1_FirstMatchWins ==
  \A q \in Requests :
    LET rq == req[q]
        list == handlers[rq.route][rq.method]
        matches == {i \in 1..Len(list) : patternTest(list[i].pattern, rq.url)}
    IN (rq.pc # "idle" /\ matches # {}) =>
         LET i == CHOOSE x \in matches : \A y \in matches : x <= y
             hm == list[i]
             allowed == {filters[rq.route][k] : k \in 1..Len(filters[rq.route])}
                          \cup {hm.middleFilters[k] : k \in 1..Len(hm.middleFilters)}
                          \cup {hm.filters[k] : k \in 1..Len(hm.filters)}
                          \cup {hm.handler}
         IN /\ rq.matcher = Some(hm)
            /\ \A k \in 1..Len(rq.invoked) :
                 rq.invoked[k].kind \in {"filter", "handler"} => rq.invoked[k].name \in allowed
            /\ \A m \in Methods : \A j \in 1..Len(handlers[rq.route][m]) :
                 LET other == handlers[rq.route][m][j]
                 IN other.handler # hm.handler =>
                      \A k \in 1..Len(rq.invoked) :
                        /\ rq.invoked[k].name # other.handler
                        /\ \A f \in 1..Len(other.filters) : rq.invoked[k].name # other.filters[f]
            /\ (rq.pc = "done" /\ rq.res # Undefined /\ rq.res[1].status = 200)
                 => rq.res[1].body = <<hm.handler>>

\* A request answered by the first of two matching entries, while the list of
\* another method holds a matching entry too.
C1_Witness ==
  \E q \in Requests :
    LET rq == req[q]
        list == handlers[rq.route][rq.method]
    IN /\ rq.pc = "done"
       /\ rq.res # Undefined /\ rq.res[1].status = 200
       /\ Len(rq.invoked) >= 2
       /\ \E i, j \in 1..Len(list) :
            /\ i < j
            /\ rq.matcher = Some(list[i])
            /\ patternTest(list[j].pattern, rq.url)
            /\ list[j].handler # list[i].handler
       /\ \E m \in Methods \ {rq.method} : \E j \in 1..Len(handlers[rq.route][m]) :
            patternTest(handlers[rq.route][m][j].pattern, rq.url)

\* C2: when no entry of the request method's list matches the URL, handle()
\* answers 404 with an empty body and no headers, and invokes no filter, no
\* handler and no error mapper.
C2_NotFound ==
  \A q \in Requests :
    LET rq == req[q]
        list == handlers[rq.route][rq.method]
    IN (rq.pc # "idle" /\ rq.method \in Methods
          /\ \A i \in 1..Len(list) : ~patternTest(list[i].pattern, rq.url)) =>
         /\ rq.pc = "done"
         /\ rq.res = Some([status |-> 404, body |-> EMPTY, headers |-> {}])
         /\ rq.rejected = Undefined
         /\ rq.error = Undefined
         /\ rq.invoked = <<>>

\* A 404 of a router whose list for the method has an entry (for another
\* path) and whose list for another method has an entry matching the URL.
C2_Witness ==
  \E q \in Requests :
    LET rq == req[q]
    IN /\ rq.pc = "done"
       /\ rq.res # Undefined /\ rq.res[1].status = 404
       /\ filters[rq.route] # <<>>
       /\ handlers[rq.route][rq.method] # <<>>
       /\ \E m \in Methods \ {rq.method} : \E j \in 1..Len(handlers[rq.route][m]) :
            patternTest(handlers[rq.route][m][j].pattern, rq.url)

\* C8: sub() takes a snapshot.  A registration on a router c, or c.sub(g),
\* changes the entry lists of c only: the lists of every other router - those
\* that absorbed c before included - stay as they are, so an entry added to c
\* after parent.sub(c) is in no list of parent.
C8_SubIsSnapshot ==
  [][\A c \in Routers :
       (nReg'[c] # nReg[c] \/ \E g \in Routers, a \in SubArgs : Sub(c, a, g, <<>>))
         => \A p \in Routers \ {c} : handlers'[p] = handlers[p]]_vars

\* A router p that absorbed c, and an entry that c got afterwards: it is in
\* a list of c and in no list of p.
C8_Witness ==
  \E p \in Routers, c \in Routers :
    /\ parent[c] = Some(p)
    /\ \E m \in Methods : \E i \in 1..Len(handlers[p][m]) : owner(handlers[p][m][i].handler) = c
    /\ \E m \in Methods : \E i \in 1..Len(handlers[c][m]) :
         \A m2 \in Methods : \A j \in 1..Len(handlers[p][m2]) :
           handlers[p][m2][j].handler # handlers[c][m][i].handler

\* C9: the path an entry absorbed by P.sub(subPath, child) is matched at is
\* the concatenation of P's root path, subPath, child's root path, the prefix
\* the entry had accumulated inside child, and the entry's declared path.
C9_AbsorbedPath ==
  [][\A p \in Routers, c \in Routers, a \in SubArgs :
       Sub(p, a, c, <<>>) =>
         \A m \in Methods : \A i \in 1..Len(handlers[c][m]) :
           LET hm == handlers[c][m][i]
           IN handlers'[p][m][Len(handlers[p][m]) + i].pattern
                = path[p] \o (IF a = Undefined THEN EMPTY ELSE a[1]) \o path[c]
                    \o hm.middlePath \o hm.path]_vars

\* C10: parent.sub(child) keeps, in every method list of parent, the entries
\* already there in front and appends child's entries behind them in the
\* order they have in child; a later registration on a router goes behind
\* every entry its list already has.
C10_SubAppends ==
  [][/\ \A p \in Routers, c \in Routers, a \in SubArgs :
          Sub(p, a, c, <<>>) =>
            \A m \in Methods :
              LET old == handlers[p][m]
                  new == handlers'[p][m]
                  ch == handlers[c][m]
              IN /\ Len(new) = Len(old) + Len(ch)
                 /\ SubSeq(new, 1, Len(old)) = old
                 /\ \A i \in 1..Len(ch) :
                      /\ new[Len(old) + i].handler = ch[i].handler
                      /\ new[Len(old) + i].filters = ch[i].filters
     /\ \A r \in Routers :
          nReg'[r] # nReg[r] =>
            /\ \E m \in Methods :
                 /\ Len(handlers'[r][m]) = Len(handlers[r][m]) + 1
                 /\ handlers'[r][m][Len(handlers'[r][m])].handler = newHandler(r)
            /\ \A m \in Methods :
                 SubSeq(handlers'[r][m], 1, Len(handlers[r][m])) = handlers[r][m]]_vars

\* A list of a router with an entry of its own, behind it an entry absorbed
\* from a sub route, and behind that an entry the router registered after
\* sub(); all three match the same URL.
C10_Witness ==
  \E p \in Routers, c \in Routers, m \in Methods :
    LET list == handlers[p][m]
    IN /\ p # c
       /\ parent[c] = Some(p)
       /\ Len(list) = 3
       /\ owner(list[1].handler) = p
       /\ owner(list[2].handler) = c
       /\ list[2].handler = handlers[c][m][1].handler
       /\ owner(list[3].handler) = p
       /\ \E u \in Urls : \A i \in 1..3 : patternTest(list[i].pattern, u)

\* C3: handle() never lets a filter or handler error escape: its promise
\* never rejects, and when a filter or the handler of the matched entry has
\* failed (a throw or a rejected promise), the call is done with the Response
\* that error mapping produced.
C3_NoEscape ==
  \A q \in Requests :
    LET rq == req[q]
    IN /\ rq.rejected = Undefined
       /\ rq.error # Undefined =>
            /\ rq.pc = "done"
            /\ rq.res # Undefined
            /\ rq.invoked # <<>>
            /\ rq.invoked[Len(rq.invoked)].kind = "mapper"
            /\ rq.invoked[Len(rq.invoked)].out = rq.res

C5_FilterOrder ==
  \A q \in Requests :
    LET rq == req[q]
    IN (rq.pc # "idle" /\ rq.route = 0 /\ rq.matcher # Undefined) =>
         LET hm == rq.matcher[1]
             o == owner(hm.handler)
             expected == filters[0] \o (IF o >= 1 THEN filters[1] ELSE <<>>)
                           \o (IF o = 2 THEN filters[2] ELSE <<>>) \o hm.filters
             called == SelectSeq(rq.invoked, LAMBDA c : c.kind \in {"filter", "handler"})
         IN /\ Len(called) <= Len(expected) + 1
            /\ \A k \in 1..Len(called) :
                 IF k <= Len(expected)
                 THEN called[k].kind = "filter" /\ called[k].name = expected[k]
                 ELSE called[k].kind = "handler" /\ called[k].name = hm.handler
            /\ (rq.pc = "done" /\ rq.error = Undefined) => Len(called) = Len(expected) + 1

\* Root has answered a request with the handler of an entry of the
\* grandchild, after four filters.
C5_Witness ==
  \E q \in Requests :
    LET rq == req[q]
    IN /\ rq.pc = "done"
       /\ rq.route = 0
       /\ parent[2] = Some(1) /\ parent[1] = Some(0)
       /\ rq.matcher # Undefined
       /\ owner(rq.matcher[1].handler) = 2
       /\ rq.res # Undefined /\ rq.res[1].status = 200
       /\ Len(rq.invoked) = 5
       /\ rq.url = Url(P_a \o P_a \o P_h)

\* C6: when a filter or the handler of the matched entry fails during
\* root.handle(), the error mapper used is that of the nearest router with a
\* mapper on the chain from the router the entry was registered on out to
\* the root; the default mapper is used only if no router of that chain has
\* a mapper.  (Stated for the failures of the entry's own filters and of its
\* handler.)
C6_OwnerChainMapper ==
  \A q \in Requests :
    LET rq == req[q]
        called == SelectSeq(rq.invoked, LAMBDA c : c.kind \in {"filter", "handler"})
    IN (rq.pc = "done" /\ rq.error # Undefined /\ rq.matcher # Undefined
          /\ parent[rq.route] = Undefined
          /\ called # <<>>
          /\ \/ called[Len(called)].kind = "handler"
             \/ \E k \in 1..Len(rq.matcher[1].filters) :
                  rq.matcher[1].filters[k] = called[Len(called)].name) =>
         LET ch == chain(owner(rq.matcher[1].handler))
             explicit == SelectSeq(ch, LAMBDA r : errMapper[r] # Undefined)
             used == SelectSeq(rq.invoked, LAMBDA c : c.kind = "mapper")
         IN /\ used # <<>>
            /\ used[1].name = IF explicit # <<>> THEN errMapper[explicit[1]][1]
                              ELSE "DEFAULT_ERROR_MAPPER"

C12_OwnMethodList ==
  [][\A fn \in RegistrationFns, a \in RegArgs :
       Register(0, fn, a, <<>>) =>
         /\ Len(handlers'[0][methodOf(fn)]) = Len(handlers[0][methodOf(fn)]) + 1
         /\ SubSeq(handlers'[0][methodOf(fn)], 1, Len(handlers[0][methodOf(fn)]))
              = handlers[0][methodOf(fn)]
         /\ handlers'[0][methodOf(fn)][Len(handlers'[0][methodOf(fn)])].handler = newHandler(0)
         /\ \A m \in Methods \ {methodOf(fn)} : handlers'[0][m] = handlers[0][m]
         /\ LET u == Url(path[0] \o (IF a = Undefined THEN EMPTY ELSE a[1]))
                hit(m) == \E i \in 1..Len(handlers'[0][m]) :
                            /\ handlers'[0][m][i].handler = newHandler(0)
                            /\ patternTest(handlers'[0][m][i].pattern, u)
            IN \A m \in Methods : hit(m) <=> (m = methodOf(fn))]_vars

\* C13: every registration function, filter() and errorMapper() returns the
\* router it was called on: the value of a fluent expression that started on
\* a router stays that router after every call, and no call of it throws.
C13_ReturnsThis ==
  /\ fluent.value = Some(fluent.this)
  /\ ~fluent.thrown

\* The names of the filters among the calls cs, in call order.
RECURSIVE filtersRun(_)
filtersRun(cs) ==
  IF cs = <<>> THEN <<>>
  ELSE IF Head(cs).kind = "filter" THEN <<Head(cs).name>> \o filtersRun(Tail(cs))
  ELSE filtersRun(Tail(cs))

\* C14: filter(...) replaces the router's own filter list: after a filter()
\* call the list is the call's arguments in their order, whatever the
\* constructor or earlier filter() calls gave; no other step changes it; and
\* the filters that ran for a request whose handler was reached are that
\* list, then the inherited filters and the own filters of the entry.
C14_FilterReplaces ==
  /\ [][/\ \A r \in Routers, fs \in FilterArgs : Filter(r, fs) => filters'[r] = fs
        /\ (~ \E r \in Routers, fs \in FilterArgs : Filter(r, fs)) => filters' = filters]_vars
  /\ [](\A q \in Requests :
          (/\ req[q].pc = "done"
           /\ req[q].matcher # Undefined
           /\ req[q].res = Some(Response(<<req[q].matcher[1].handler>>, 200)))
            => filtersRun(req[q].invoked)
                 = filters[req[q].route] \o req[q].matcher[1].middleFilters
                     \o req[q].matcher[1].filters)

\* A request on router 0, made with the filter f0, ran g1, g2 and the filter
\* of the entry, and not f0: filter(g1, g2) was called on router 0.
C14_Witness ==
  \E q \in Requests :
    /\ req[q].pc = "done"
    /\ req[q].route = 0
    /\ req[q].res # Undefined /\ req[q].res[1].status = 200
    /\ filtersRun(req[q].invoked) = <<"g1", "g2">> \o req[q].matcher[1].filters
    /\ req[q].matcher[1].filters # <<>>

\* The positions of a handle() call at which a filter or the handler is
\* about to be called with the context, or is running with it.
WithContext ==
  {"filter", "awaitFilter", "handler", "awaitHandler",
   "modRouteFilter", "modAwaitRouteFilter", "modFilter", "modAwaitFilter",
   "modHandler", "modAwaitHandler"}

\* The context before any filter has run: the client metadata overlaid with
\* the path parameters of the matched pattern.
contextBeforeFilters(rq) ==
  assign([k \in {"client"} |-> Undefined], patternExec(rq.matcher[1].pattern, rq.url))

\* C15: the context is the client metadata, overlaid with the path
\* parameters, overlaid with each filter's mapping in execution order.  Every
\* filter and the handler get a context that has the path parameters; the
\* first filter gets the client metadata overlaid with the path parameters;
\* a filter's mapping overwrites the keys the context has (from the path
\* parameters or earlier filters) and leaves the others; a filter that
\* returns nothing leaves the context as it is.
C15_ContextBuild ==
  /\ [](\A q \in Requests :
          req[q].pc \in WithContext =>
            /\ DOMAIN contextBeforeFilters(req[q]) \subseteq DOMAIN req[q].ctx
            /\ filtersRun(req[q].invoked) = <<>> => req[q].ctx = contextBeforeFilters(req[q]))
  /\ [][\A q \in Requests :
          (req[q].pc \in WithContext /\ req'[q].pc \in WithContext) =>
            \/ req'[q].ctx = req[q].ctx
            \/ \E d \in FilterData :
                 /\ req[q].pc \in {"awaitFilter", "modAwaitRouteFilter", "modAwaitFilter"}
                 /\ DOMAIN req'[q].ctx = DOMAIN req[q].ctx \cup DOMAIN d
                 /\ \A k \in DOMAIN req'[q].ctx :
                      req'[q].ctx[k] = IF k \in DOMAIN d THEN d[k] ELSE req[q].ctx[k]]_vars

\* C16: each handle() call builds its own context.  A call starts from the
\* client metadata and its own path parameters, whatever other calls have
\* written into theirs, and a step that changes the context of one call
\* leaves the context of every other call as it was.
C16_OwnContext ==
  /\ [](\A q \in DOMAIN req :
          (req[q].pc \in WithContext /\ filtersRun(req[q].invoked) = <<>>)
            => req[q].ctx = contextBeforeFilters(req[q]))
  /\ [][\A q \in DOMAIN req, p \in DOMAIN req :
          (p # q /\ req'[q].ctx # req[q].ctx) => req'[p].ctx = req[p].ctx]_vars

\* Two calls are in flight, the first has the key a from one of its filters
\* and the second, whose filters have all run, has no key a.
C16_Witness ==
  /\ DOMAIN req = Requests2
  /\ req[1].pc \in {"filter", "handler", "awaitHandler"}
  /\ "a" \in DOMAIN req[1].ctx
  /\ req[2].pc = "handler"
  /\ "a" \notin DOMAIN req[2].ctx
  /\ filtersRun(req[2].invoked) # <<>>

\* The filter chain of the call rq: the router's own filters, the inherited
\* filters of the matched entry, the entry's own filters.
chainOf(rq) ==
  filters[rq.route] \o rq.matcher[1].middleFilters \o rq.matcher[1].filters

\* Whether the handler has been called in the call rq.
handlerCalled(rq) == \E i \in 1..Len(rq.invoked) : rq.invoked[i].kind = "handler"

\* C17: within one request the filters run one after another.  The filters
\* started are a prefix of the chain, in its order; at most one filter is
\* started and not completed, and only while the call awaits it; when the
\* next filter or the handler is about to be called every filter started
\* has completed; the handler is called only after the whole chain has
\* completed; and a step that starts a filter or the handler is taken with
\* no filter pending.
C17_Sequential ==
  /\ [](\A q \in DOMAIN req :
          req[q].matcher # Undefined =>
            LET rq == req[q]
                started == filtersRun(rq.invoked)
                completed == Len(chainOf(rq)) - Len(rq.todo)
            IN /\ Len(started) <= Len(chainOf(rq))
               /\ started = SubSeq(chainOf(rq), 1, Len(started))
               /\ Len(started) - completed \in {0, 1}
               /\ rq.pc \in {"filter", "handler", "awaitHandler"} => Len(started) = completed
               /\ rq.pc = "awaitFilter" => Len(started) = completed + 1
               /\ handlerCalled(rq) => (started = chainOf(rq) /\ rq.todo = <<>>))
  /\ [][\A q \in DOMAIN req :
          (/\ Len(req'[q].invoked) > Len(req[q].invoked)
           /\ req'[q].invoked[Len(req[q].invoked) + 1].kind \in {"filter", "handler"})
            => req[q].pc \in {"idle", "filter", "handler"}]_vars

\* The first filter of a chain of three or more has completed and its mapping
\* is in the context, the second is awaited, the third is not started.
C17_Witness ==
  \E q \in DOMAIN req :
    /\ req[q].pc = "awaitFilter"
    /\ Len(chainOf(req[q])) >= 3
    /\ Len(filtersRun(req[q].invoked)) = 2
    /\ "a" \in DOMAIN req[q].ctx

\* C18: a filter that throws, or whose promise rejects, aborts the dispatch.
\* The call is done with the filter's error; the filters that ran are the
\* chain up to and including that filter, no later one; the handler is not
\* called; the Response is the mapping of the filter's error, which is 500
\* with the error's message when no router of the chain has a mapper; and
\* nothing more is invoked for a call that is done.
C18_FilterAborts ==
  [][\A q \in DOMAIN req :
       /\ \A mo \in MapperOracles :
            (\/ FilterCall(q, "throw", mo)
             \/ FilterSettle(q, [kind |-> "reject", data |-> NoData], mo))
              => LET f == Head(req[q].todo)
                     n == Len(chainOf(req[q])) - Len(req[q].todo) + 1
                 IN /\ req'[q].pc = "done"
                    /\ req'[q].error = Some(Error(f))
                    /\ filtersRun(req'[q].invoked) = SubSeq(chainOf(req[q]), 1, n)
                    /\ ~handlerCalled(req'[q])
                    /\ req'[q].res # Undefined
                    /\ (\A k \in 1..Len(chain(req[q].route)) :
                          errMapper[chain(req[q].route)[k]] = Undefined)
                         => req'[q].res = Some(Response(<<"error in ", f>>, 500))
       /\ req[q].pc = "done" => req'[q].invoked \in {req[q].invoked, <<>>}]_vars

\* A call answered 500 'error in f' for a filter f that is not the last of
\* its chain: the filters after f and the handler were not called.
C18_Witness ==
  \E q \in DOMAIN req :
    /\ req[q].pc = "done"
    /\ req[q].matcher # Undefined
    /\ Len(req[q].todo) >= 2
    /\ req[q].res = Some(Response(<<"error in ", Head(req[q].todo)>>, 500))
    /\ filtersRun(req[q].invoked) # chainOf(req[q])
    /\ ~handlerCalled(req[q])

\* C19: the filters given to parent.sub(path, child, ...filters) run for the
\* entries absorbed by that call and only for them, after parent's own
\* filters and before child's own filters, the filters the entry inherited
\* before and the entry's own.  A sub() step leaves the entries parent had
\* as they are and gives each entry it absorbs the inherited filters
\* `filters given to sub()` ++ `child's own` ++ `inherited before`, with its
\* own filters kept; no step changes an entry afterwards; and a dispatch runs
\* parent's own filters, then the matched entry's inherited filters, then
\* its own.
C19_SubFilters ==
  /\ [][/\ \A this \in Routers, route \in Routers, fs \in SubFilterArgs, a \in SubArgs :
             Sub(this, a, route, fs) =>
               \A m \in Methods :
                 /\ Len(handlers'[this][m]) = Len(handlers[this][m]) + Len(handlers[route][m])
                 /\ \A i \in 1..Len(handlers[route][m]) :
                      LET hm == handlers[route][m][i]
                          new == handlers'[this][m][Len(handlers[this][m]) + i]
                      IN /\ new.handler = hm.handler
                         /\ new.filters = hm.filters
                         /\ new.middleFilters = fs \o filters[route] \o hm.middleFilters
        /\ \A r \in Routers, m \in Methods :
             \A i \in 1..Len(handlers[r][m]) :
               /\ Len(handlers'[r][m]) >= i
               /\ handlers'[r][m][i] = handlers[r][m][i]]_vars
  /\ [](\A q \in DOMAIN req :
          (req[q].matcher # Undefined /\ handlerCalled(req[q])) =>
            /\ filtersRun(req[q].invoked) = chainOf(req[q])
            /\ (\E i \in 1..Len(chainOf(req[q])) : chainOf(req[q])[i] \in {"s1"})
                 <=> (\E i \in 1..Len(req[q].matcher[1].middleFilters) :
                        req[q].matcher[1].middleFilters[i] = "s1"))

\* A request on the parent, which has a filter of its own, reached the
\* handler of an entry absorbed with sub('/a', child, s1): the parent's
\* filters ran, then s1, then the child's filter f1, then the entry's own.
C19_Witness ==
  \E q \in DOMAIN req :
    /\ req[q].matcher # Undefined
    /\ handlerCalled(req[q])
    /\ req[q].route = 0
    /\ filters[0] # <<>>
    /\ req[q].matcher[1].middleFilters = <<"s1", "f1">>
    /\ req[q].matcher[1].filters # <<>>
    /\ filtersRun(req[q].invoked)
         = filters[0] \o <<"s1", "f1">> \o req[q].matcher[1].filters

\* The path of a request URL: '/' for the bare base URL, else the
\* characters after the origin, without the query string.
urlPath(url) == IF url.path = EMPTY THEN <<"/">> ELSE url.path

\* C20: matching is exact on the URL path, whatever the query string.  With
\* literal patterns a request is dispatched to the first entry of its
\* method whose pattern is, character for character, the path of the URL,
\* and answered 404 when there is none: the pattern '' (an entry at '' of a
\* router without prefix) is never matched, the pattern '/' is matched by
\* the bare base URL and by the base URL with a trailing slash, and P and
\* P + '/' match different requests.
C20_ExactPath ==
  \A q \in DOMAIN req :
    req[q].pc # "idle" =>
      LET rq == req[q]
          list == handlers[rq.route][rq.method]
          exact == {i \in 1..Len(list) : list[i].pattern = urlPath(rq.url)}
      IN /\ rq.matcher # Undefined =>
              /\ exact # {}
              /\ rq.matcher[1] = list[CHOOSE i \in exact : \A j \in exact : i <= j]
              /\ rq.matcher[1].pattern # EMPTY
         /\ rq.matcher = Undefined =>
              /\ exact = {}
              /\ rq.res = Some(Response(EMPTY, 404))

\* A request for the bare base URL with a query string is dispatched to the
\* entry at '/' of a router without prefix whose first entry is at '', and
\* the router also has an entry at '/h', which a request for '/h/' would
\* not reach.
C20_Witness ==
  \E q \in DOMAIN req :
    LET list == handlers[req[q].route][req[q].method]
    IN /\ req[q].pc = "done"
       /\ req[q].url.path = EMPTY
       /\ req[q].url.search # EMPTY
       /\ req[q].matcher # Undefined
       /\ req[q].matcher[1].pattern = SLASH
       /\ Len(list) = 3
       /\ list[1].pattern = EMPTY
       /\ list[3].pattern = P_h
       /\ ~patternTest(list[3].pattern, Url(P_h \o SLASH))

\* The segments of a path or pattern: the runs between its '/' separators
\* ('/a/b' has the segments '', 'a', 'b').
RECURSIVE segments(_)
segments(s) ==
  IF \A i \in 1..Len(s) : s[i] # "/" THEN <<s>>
  ELSE LET k == CHOOSE i \in 1..Len(s) : s[i] = "/" /\ \A j \in 1..(i - 1) : s[j] # "/"
       IN <<SubSeq(s, 1, k - 1)>> \o segments(SubSeq(s, k + 1, Len(s)))

\* The parameters a pattern of literal and ':name' segments takes from a
\* path with as many segments: the segment at each ':name' position.
namedSegments(pat, u) ==
  LET ps == segments(pat)
      us == segments(u)
      at == {i \in 1..Len(ps) : Len(ps[i]) = 1 /\ ps[i][1] \in ParamNames}
  IN [k \in {groupKey(ps[i][1], 0) : i \in at} |->
        us[CHOOSE i \in at : groupKey(ps[i][1], 0) = k]]

\* C21: for every entry and the URL of the request, test(url) is true iff
\* exec(url) yields a result.  A pattern of literal and ':name' segments
\* matches exactly the paths with as many segments, equal at the literal
\* positions and not empty at the ':name' positions, and the parameters are
\* the path's segments at the ':name' positions, whatever the query string;
\* a pattern without parameters yields the empty mapping; and the context of
\* the dispatched request has the parameters of the matched pattern.
C21_TestIffExec ==
  \A q \in DOMAIN req :
    req[q].pc # "idle" =>
      LET rq == req[q]
          list == handlers[rq.route][rq.method]
          u == urlPath(rq.url)
      IN /\ \A i \in 1..Len(list) :
              LET pat == list[i].pattern
                  res == execGroups(pat, u, 0)
                  ps == segments(pat)
                  us == segments(u)
              IN /\ patternTest(pat, rq.url) <=> res # <<>>
                 /\ WILDCARD \notin {pat[j] : j \in 1..Len(pat)} =>
                      /\ res # <<>> <=>
                           /\ Len(ps) = Len(us)
                           /\ \A j \in 1..Len(ps) :
                                IF Len(ps[j]) = 1 /\ ps[j][1] \in ParamNames
                                THEN us[j] # EMPTY ELSE us[j] = ps[j]
                      /\ res # <<>> => res[1] = namedSegments(pat, u)
                      /\ (res # <<>> /\ pat = P_h) => res[1] = NoData
         /\ rq.matcher # Undefined =>
              /\ execGroups(rq.matcher[1].pattern, u, 0) # <<>>
              /\ rq.ctx = assign([k \in {"client"} |-> Undefined],
                                 execGroups(rq.matcher[1].pattern, u, 0)[1])

\* A request for '/a/h?k=v' was dispatched to the entry '/:p1/:p2' with
\* p1 = 'a' and p2 = 'h', on a router that also has the entry '/h'.
C21_Witness ==
  \E q \in DOMAIN req :
    /\ req[q].pc = "done"
    /\ req[q].url = [path |-> P_a \o P_h, search |-> <<"k", "=", "v">>]
    /\ req[q].matcher # Undefined
    /\ req[q].matcher[1].pattern = <<"/", ":p1", "/", ":p2">>
    /\ req[q].ctx["p1"] = <<"a">>
    /\ req[q].ctx["p2"] = <<"h">>
    /\ \E i \in 1..Len(handlers[0]["GET"]) : handlers[0]["GET"][i].pattern = P_h

\* C22: a trailing wildcard captures the whole remainder of the path,
\* separators included, under the key "0" of the context.  The entry '/a/*'
\* matches exactly the paths that begin with '/a/', whatever the query
\* string, and the context of a request dispatched to it is the client
\* metadata and the key "0" with all the characters after '/a/'.
C22_WildcardRest ==
  \A q \in DOMAIN req :
    req[q].pc # "idle" =>
      LET rq == req[q]
          list == handlers[rq.route][rq.method]
          u == urlPath(rq.url)
      IN /\ \A i \in 1..Len(list) :
              list[i].pattern = P_a \o P_star =>
                (patternTest(list[i].pattern, rq.url)
                   <=> (Len(u) >= 3 /\ SubSeq(u, 1, 3) = P_a \o SLASH))
         /\ (rq.matcher # Undefined /\ rq.matcher[1].pattern = P_a \o P_star) =>
              /\ DOMAIN rq.ctx = {"client", "0"}
              /\ rq.ctx["0"] = SubSeq(u, 4, Len(u))

\* A request for '/a/h/m?k=v' was dispatched to the entry '/a/*' with the
\* key "0" = 'h/m'.
C22_Witness ==
  \E q \in DOMAIN req :
    /\ req[q].pc = "done"
    /\ req[q].url = [path |-> P_a \o P_h \o P_m, search |-> <<"k", "=", "v">>]
    /\ req[q].matcher # Undefined
    /\ req[q].matcher[1].pattern = P_a \o P_star
    /\ req[q].ctx["0"] = <<"h", "/", "m">>
    /\ req[q].res = Some(Response(<<req[q].matcher[1].handler>>, 200))

\* C23: the handler-first call shape is the path-first shape with an empty
\* path: for every registration function m, a call m(h) and a call m('', h)
\* on the same router leave the same entry lists, so that the router answers
\* every request alike.
C23_ShapesAgree ==
  [][\A fn \in RegistrationFns :
       Register(0, fn, Undefined, <<>>) <=> Register(0, fn, Some(EMPTY), <<>>)]_vars

\* The value of the header of the given name in a header set, or undefined.
headerOf(hs, name) ==
  IF \E h \in hs : h[1] = name THEN Some((CHOOSE h \in hs : h[1] = name)[2]) ELSE Undefined

\* C24: the CORS handler answers a request whose method is not OPTIONS with
\* 405 and no headers, and an OPTIONS request with 204, with
\* Access-Control-Allow-Origin, -Methods and -Headers being the configured
\* value, else the default, Access-Control-Allow-Credentials iff
\* allowCredentials was configured, and Access-Control-Max-Age iff maxAge was
\* configured.
C24_CorsAnswer ==
  \A q \in DOMAIN req :
    (req[q].pc = "done" /\ req[q].res # Undefined) =>
      LET res == req[q].res[1]
          o == made.cors
          configured(v, d) == IF v = Undefined THEN Some(d) ELSE v
      IN IF req[q].method # "OPTIONS"
         THEN res.status = 405 /\ res.headers = {}
         ELSE /\ res.status = 204
              /\ headerOf(res.headers, "Access-Control-Allow-Origin")
                   = configured(o.allowOrigin, DEFAULT_CORS_OPTIONS.allowOrigin)
              /\ headerOf(res.headers, "Access-Control-Allow-Methods")
                   = configured(o.allowMethods, DEFAULT_CORS_OPTIONS.allowMethods)
              /\ headerOf(res.headers, "Access-Control-Allow-Headers")
                   = configured(o.allowHeaders, DEFAULT_CORS_OPTIONS.allowHeaders)
              /\ headerOf(res.headers, "Access-Control-Allow-Credentials") # Undefined
                   <=> o.allowCredentials # Undefined
              /\ headerOf(res.headers, "Access-Control-Max-Age") # Undefined
                   <=> o.maxAge # Undefined

\* C25: a 304 response of the file download handler sets no headers and no
\* body, whatever the handler's options.
C25_NotModifiedBare ==
  \A q \in DOMAIN req :
    (req[q].pc = "done" /\ req[q].res # Undefined /\ req[q].res[1].status = 304) =>
      /\ req[q].res[1].headers = {}
      /\ req[q].res[1].body = EMPTY

\* C26: the path an entry is compiled from is the concatenation of its
\* non-empty parts (root path, sub path, accumulated prefix, declared path)
\* with a duplicate separator at a joint collapsed to one: no non-empty part
\* is dropped and no '//' is made at a joint.
C26_JoinedPath ==
  [][LET RECURSIVE joined(_)
         joined(parts) ==
           IF parts = <<>> THEN EMPTY
           ELSE LET h == Head(parts)
                    rest == joined(Tail(parts))
                IN IF endsWithSlash(h) /\ startsWithSlash(rest) THEN h \o Tail(rest)
                   ELSE h \o rest
     IN /\ \A r \in Routers, a \in {Undefined, Some(P_h)} :
             Get(r, a, <<newFilter(r)>>) =>
               handlers'[r]["GET"][Len(handlers[r]["GET"]) + 1].pattern
                 = joined(<<path[r], autoSlashPrefix(IF a = Undefined THEN EMPTY ELSE a[1])>>)
        /\ \A p \in Routers, c \in Routers, b \in SubArgs :
             Sub(p, b, c, <<>>) =>
               \A m \in Methods : \A i \in 1..Len(handlers[c][m]) :
                 LET hm == handlers[c][m][i]
                 IN handlers'[p][m][Len(handlers[p][m]) + i].pattern
                      = joined(<<path[p], autoSlashPrefix(IF b = Undefined THEN EMPTY ELSE b[1]),
                                 path[c], hm.middlePath, hm.path>>)]_vars

\* C27: handle() answers 404 to every request that no entry matches, a
\* request whose method is none of the eight supported ones and has no entry
\* list included; the error mapper never answers such a request.
C27_NoEntryNotFound ==
  \A q \in DOMAIN req :
    LET rq == req[q]
        list == IF rq.method \in Methods THEN handlers[rq.route][rq.method] ELSE <<>>
    IN (rq.pc # "idle" /\ \A i \in 1..Len(list) : ~patternTest(list[i].pattern, rq.url)) =>
         /\ rq.pc = "done"
         /\ rq.res = Some(Response(EMPTY, 404))
         /\ rq.error = Undefined
         /\ rq.invoked = <<>>

\* C28: the own filter list of the router handle() is called on is the one
\* in force at dispatch time, and it applies to every entry of the router,
\* those registered or absorbed before the filter() call included: right
\* after r.filter(fs), a request that an entry already in a list of r is
\* matched to runs fs, then the entry's inherited and own filters, and no
\* handler before them.
C28_FilterInForce ==
  [][\A r \in Routers, fs \in FilterArgs :
       Filter(r, fs) =>
         \A u \in {Url(P_h), Url(P_a \o P_h)} :
           LET before == handleBegin(r, "GET", u, "return", NoMappers)
               rq == handleBegin(r, "GET", u, "return", NoMappers)'
           IN before.matcher # Undefined =>
                /\ rq.matcher = before.matcher
                /\ rq.todo = fs \o rq.matcher[1].middleFilters \o rq.matcher[1].filters
                /\ fs # <<>> => (rq.pc = "filter" /\ rq.invoked = <<>>)]_vars

\* A request on router 0 was dispatched to an entry absorbed from router 1
\* and ran g1 and g2, the arguments of a filter() call on router 0, before
\* the filters the entry brought along and the handler.
C28_Witness ==
  \E q \in Requests :
    LET rq == req[q]
    IN /\ rq.pc = "done"
       /\ rq.route = 0
       /\ rq.matcher # Undefined
       /\ owner(rq.matcher[1].handler) = 1
       /\ rq.matcher[1].middleFilters # <<>>
       /\ rq.res = Some(Response(<<rq.matcher[1].handler>>, 200))
       /\ filtersRun(rq.invoked)
            = <<"g1", "g2">> \o rq.matcher[1].middleFilters \o rq.matcher[1].filters

\* C29: handle() is read-only on router state.  Every step of a handle()
\* call - the match or the 404, each filter call and settlement, the handler
\* call and settlement, error mapping, the return - leaves the entry lists
\* of all methods, the own filter list, the error mapper, the root path and
\* the parent link of every router as they were.
C29_HandleReadOnly ==
  [][(\/ req' # req
      \/ \E q \in Requests, r \in Routers, u \in UrlsNest :
           HandleStart(q, r, "GET", u, "return", NoMappers)
      \/ \E q \in Requests, o \in CallOuts, mo \in MapperOracles :
           FilterCall(q, o, mo) \/ HandlerCall(q, o, mo)
      \/ \E q \in Requests, o \in FilterOuts, mo \in MapperOracles : FilterSettle(q, o, mo)
      \/ \E q \in Requests, o \in SettleOuts, mo \in MapperOracles : HandlerSettle(q, o, mo)
      \/ \E q \in Requests : Return(q))
       => /\ handlers' = handlers
          /\ filters' = filters
          /\ errMapper' = errMapper
          /\ path' = path
          /\ parent' = parent]_vars

\* A handle() call on router 2, which has entries, a filter, an error
\* mapper and a parent, ended with an error that its mapper was called for.
C29_Witness ==
  \E q \in Requests :
    LET rq == req[q]
    IN /\ rq.pc = "done"
       /\ rq.route = 2
       /\ rq.error # Undefined
       /\ parent[2] = Some(1)
       /\ errMapper[2] # Undefined
       /\ filters[2] # <<>>
       /\ handlers[2]["GET"] # <<>>
       /\ \E i \in 1..Len(rq.invoked) :
            rq.invoked[i].kind = "mapper" /\ rq.invoked[i].name = errMapper[2][1]

\* C30: the engine performs no retries.  During one handle() call every
\* filter of the matched entry's chain is invoked at most once (as often as
\* it stands in the chain), nothing else is invoked as a filter, the handler
\* is invoked at most once, and error mapping is entered at most once and
\* only after a failure: the mapper of a router is asked at most once, the
\* mappers are the last things invoked, and the function that failed is the
\* last filter or handler invoked.
C30_NoRetries ==
  \A q \in DOMAIN req :
    LET rq == req[q]
        cs == rq.invoked
        at(kind) == {i \in 1..Len(cs) : cs[i].kind = kind}
        named(kind, name) == {i \in at(kind) : cs[i].name = name}
        ch == IF rq.matcher = Undefined THEN <<>> ELSE chainOf(rq)
        run == at("filter") \cup at("handler")
    IN rq.pc # "idle" =>
         /\ \A i \in at("filter") :
              Cardinality(named("filter", cs[i].name))
                <= Cardinality({j \in 1..Len(ch) : ch[j] = cs[i].name})
         /\ Cardinality(at("handler")) <= 1
         /\ \A i \in at("mapper") :
              /\ Cardinality(named("mapper", cs[i].name)) = 1
              /\ rq.error # Undefined
              /\ \A j \in run : j < i
         /\ rq.error # Undefined =>
              /\ rq.pc = "done"
              /\ at("mapper") # {}
              /\ run # {} =>
                   LET last == CHOOSE i \in run : \A j \in run : j <= i
                   IN rq.error = Some(Error(cs[last].name))

\* A call on a router with a parent ran its two filters once each, then
\* the handler once; the handler failed, the router's own mapper was asked
\* and declined, and the parent's mapper was asked after it.
C30_Witness ==
  \E q \in DOMAIN req :
    LET rq == req[q]
        cs == rq.invoked
    IN /\ rq.pc = "done"
       /\ rq.matcher # Undefined
       /\ Len(chainOf(rq)) >= 2
       /\ Len(cs) = Len(chainOf(rq)) + 3
       /\ cs[Len(cs) - 2].kind = "handler"
       /\ rq.error = Some(Error(rq.matcher[1].handler))
       /\ cs[Len(cs) - 1].kind = "mapper" /\ cs[Len(cs) - 1].out = Undefined
       /\ cs[Len(cs)].kind = "mapper" /\ cs[Len(cs)].name # "DEFAULT_ERROR_MAPPER"

\* C31: parent.sub(child) modifies the child only by setting its parent
\* link.  The child's entry lists, patterns included, its filters, its root
\* path and its error mapper are as before, so that child.handle() matches
\* the same URLs and runs the same filters; and the entries of every other
\* router, a parent the child was given to before included, are as before.
C31_SubKeepsChild ==
  [][\A this \in Routers, route \in Routers, a \in {Undefined, Some(P_a)} :
       TreeSub(this, route, a) =>
         /\ handlers'[route] = handlers[route]
         /\ filters'[route] = filters[route]
         /\ path'[route] = path[route]
         /\ errMapper'[route] = errMapper[route]
         /\ \A p \in Routers \ {this} : handlers'[p] = handlers[p]
         /\ \A u \in Urls :
              findMatchHandler(route, "GET", u)' = findMatchHandler(route, "GET", u)]_vars

\* C32: the child's filters are captured at sub() time.  A child.filter(...)
\* call leaves the entry lists of every router as they are, and the match
\* and the filter chain of a request on any other router, the parent that
\* absorbed the child included, are the same after the call as before.
C32_ChildFiltersCaptured ==
  [][\A c \in Routers, fs \in FilterArgs :
       Filter(c, fs) =>
         /\ handlers' = handlers
         /\ \A p \in Routers \ {c} : \A u \in {Url(P_h), Url(P_a \o P_h)} :
              LET before == handleBegin(p, "GET", u, "return", NoMappers)
                  after == handleBegin(p, "GET", u, "return", NoMappers)'
              IN /\ after.matcher = before.matcher
                 /\ after.todo = before.todo
                 /\ after.pc = before.pc]_vars

\* Router 1, made with the filter f1, was absorbed by router 0 and then got
\* the filter g1 in place of f1; a request on router 0 reached the handler
\* of the absorbed entry after f0, f1 and the entry's own filter, not g1.
C32_Witness ==
  \E q \in Requests :
    LET rq == req[q]
    IN /\ rq.pc = "done"
       /\ rq.route = 0
       /\ parent[1] = Some(0)
       /\ filters[1] = <<"g1">>
       /\ rq.matcher # Undefined
       /\ owner(rq.matcher[1].handler) = 1
       /\ rq.res = Some(Response(<<rq.matcher[1].handler>>, 200))
       /\ filtersRun(rq.invoked) = <<routeFilter(0), routeFilter(1)>> \o rq.matcher[1].filters

\* C33: an error mapper that returns undefined has not handled the error.
\* mapError then asks the mapper of the nearest ancestor that has one, and
\* the default mapper when no ancestor is left, so that an error always gets
\* a Response: the call neither rejects nor resolves with undefined, every
\* mapper that returned undefined is followed by the next one in that order,
\* and the Response is what the last mapper asked returned.
C33_UndefinedFallsThrough ==
  \A q \in Requests :
    LET rq == req[q]
        used == SelectSeq(rq.invoked, LAMBDA c : c.kind = "mapper")
        explicit == SelectSeq(chain(rq.route), LAMBDA r : errMapper[r] # Undefined)
        nameAt(k) == IF k <= Len(explicit) THEN errMapper[explicit[k]][1]
                     ELSE "DEFAULT_ERROR_MAPPER"
    IN (rq.pc = "done" /\ rq.error # Undefined) =>
         /\ rq.rejected = Undefined
         /\ rq.res # Undefined
         /\ rq.res[1].status \in {400, 500}
         /\ used # <<>>
         /\ used[1].name = nameAt(1)
         /\ \A k \in 1..Len(used) :
              used[k].out = Undefined => (k < Len(used) /\ used[k + 1].name = nameAt(k + 1))
         /\ rq.res = used[Len(used)].out
         /\ used[Len(used)].name = "DEFAULT_ERROR_MAPPER" =>
              /\ Len(used) = Len(explicit) + 1
              /\ rq.res = Some(DEFAULT_ERROR_MAPPER(rq.error[1]))

\* The mapper of the router and the mapper of its parent both returned
\* undefined, and the default mapper answered 500 with the error's message.
C33_Witness ==
  \E q \in Requests :
    LET rq == req[q]
        used == SelectSeq(rq.invoked, LAMBDA c : c.kind = "mapper")
    IN /\ rq.pc = "done"
       /\ rq.error # Undefined
       /\ Len(used) = 3
       /\ used[1].name = routeMapper(rq.route) /\ used[1].out = Undefined
       /\ parent[rq.route] # Undefined
       /\ used[2].name = routeMapper(parent[rq.route][1]) /\ used[2].out = Undefined
       /\ used[3].name = "DEFAULT_ERROR_MAPPER"
       /\ rq.res = Some(Response(rq.error[1].message, 500))

\* C34: when every filter, the handler and every mapper invoked complete
\* and the parent links form no cycle, a handle() call that has started
\* eventually resolves with one Response, and it has that Response, and no
\* rejection, until the caller takes it; the walk up the parent chain in
\* mapError asks the mapper of each ancestor at most once.
C34_Resolves ==
  /\ \A q \in Requests :
       (req[q].pc \notin {"idle", "done"})
         ~> (req[q].pc = "done" /\ req[q].res # Undefined /\ req[q].rejected = Undefined)
  /\ [](\A q \in Requests :
          /\ req[q].pc = "done" => (req[q].res # Undefined /\ req[q].rejected = Undefined)
          /\ \A r \in Routers :
               Cardinality({i \in 1..Len(req[q].invoked) :
                              /\ req[q].invoked[i].kind = "mapper"
                              /\ req[q].invoked[i].name = routeMapper(r)}) <= 1)
  /\ [][\A q \in Requests :
          (req[q].pc = "done" /\ req'[q].pc = "done") => req'[q].res = req[q].res]_vars

\* A call on router 2, the innermost of a chain of three, waits for the
\* second filter of its chain.
C34_Witness ==
  \E q \in Requests :
    /\ req[q].pc = "awaitFilter"
    /\ req[q].route = 2
    /\ parent[2] = Some(1)
    /\ parent[1] = Some(0)
    /\ Len(filtersRun(req[q].invoked)) = 2

\* C35: the matched entry and the filter chain of a request are fixed when
\* handle() starts.  The chain is that of the moment of the call; while the
\* call goes on, whatever filter(), registration, sub() or errorMapper()
\* call is made meanwhile, its entry stays the same, the filters that ran
\* followed by those still to run stay the same chain, the next filter
\* called is the next of that chain and the handler called is that of the
\* entry; the error mapper alone is looked up when an error is caught: the
\* mappers asked are those the routers have at that moment.
C35_ChainFixedAtStart ==
  [][\A q \in Requests :
       LET rq == req[q]
           nx == req'[q]
           pending(x) == IF x.pc = "awaitFilter" THEN Tail(x.todo) ELSE x.todo
           whole(x) == filtersRun(x.invoked) \o pending(x)
           mos == {NoMappers, [r \in Routers |-> "custom"]}
       IN /\ (rq.pc = "idle" /\ nx.pc \notin {"idle", "done"}) =>
               whole(nx) = filters[nx.route] \o nx.matcher[1].middleFilters
                             \o nx.matcher[1].filters
          /\ (rq.pc \notin {"idle", "done"}) =>
               /\ nx.matcher = rq.matcher
               /\ nx.route = rq.route
               /\ nx.pc # "done" => whole(nx) = whole(rq)
               /\ Len(nx.invoked) > Len(rq.invoked) =>
                    LET c == nx.invoked[Len(rq.invoked) + 1]
                    IN /\ c.kind = "mapper" => (nx.pc = "done" /\ nx.error # Undefined)
                       /\ c.kind = "filter" => (rq.todo # <<>> /\ c.name = Head(rq.todo))
                       /\ c.kind = "handler" => (rq.todo = <<>> /\ c.name = rq.matcher[1].handler)
               /\ (nx.pc = "done" /\ nx.error # Undefined) =>
                    \E mo \in mos :
                      LET m == mapError(rq.route, nx.error[1], mo)
                      IN /\ nx.res = Some(m.res)
                         /\ SubSeq(nx.invoked, Len(nx.invoked) - Len(m.calls) + 1,
                                   Len(nx.invoked)) = m.calls]_vars

\* A call on router 0 that started when its filter list was f0 waits for the
\* entry's own filter, f0 has run, and the router's list is g1 by now: the
\* filter() call was made while the request was suspended.
C35_Witness ==
  \E q \in Requests :
    /\ req[q].pc = "awaitFilter"
    /\ req[q].route = 0
    /\ filters[0] = <<"g1">>
    /\ filtersRun(req[q].invoked) = <<routeFilter(0)>> \o req[q].matcher[1].filters
    /\ req[q].matcher[1].filters # <<>>
    /\ Len(handlers[0]["GET"]) >= 2

\* C36: the file download handler never leaks the file it opened.  When it
\* has returned or thrown, the file is streamed by the 200 response, or it
\* was closed (not a regular file, 304, an exception after the file was
\* opened), or none was opened (a request that is not a GET, a missing file,
\* a failed open): no file is left open.
C36_NoLeak ==
  \A q \in DOMAIN req :
    req[q].pc = "done" =>
      /\ req[q].file # "open"
      /\ req[q].file = "streaming" <=> (req[q].res # Undefined /\ req[q].res[1].status = 200)
      /\ req[q].rejected # Undefined => req[q].file \in {"none", "closed"}

====
